---- MODULE Spec2Model ----
(***************************************************************************)
(* sheetsql: a query layer over a spreadsheet store.                       *)
(*                                                                         *)
(* Strings are sequences of one-character strings, so that the string      *)
(* functions the code relies on (comparison, lower-casing, containment,    *)
(* trimming, number parsing and formatting) are computed, not assumed.     *)
(***************************************************************************)
EXTENDS Integers, Sequences, FiniteSets, TLC

VARIABLES
    sheet,      \* the store: the rows of the sheet the Query names, header first
    sheet0,     \* the store: the rows of the sheet whose id is 0 (another sheet)
    query,      \* the Query of the last call: sheetName, where, limit, offset
    data,       \* the record handed to the last Insert / Update
    pc,         \* where the running call stands: "idle", "updating", "deleting"
    todo,       \* rows the running Update / Delete has still to write
    dest,       \* the destination slice of Get
    err,        \* what the last call returned: "nil" or the error
    requests,   \* every read and write request sent to the store, in order
    calls,      \* how many calls were begun
    input,      \* the arguments of the call or function under study
    output      \* what the function under study returned for them

storeVars == <<sheet, sheet0>>

callVars == <<pc, todo, dest, err, requests, calls>>

studyVars == <<input, output>>

vars == <<sheet, sheet0, query, data, pc, todo, dest, err, requests, calls, input, output>>

-----------------------------------------------------------------------------
(* Characters and strings                                                  *)

\* The printable ASCII characters in code point order, 32 (space) to 126 (tilde);
\* the grave accent (96) is not a character of the model.
Ascii ==
    << " ", "!", "\"", "#", "$", "%", "&", "'", "(", ")", "*", "+", ",", "-", ".", "/",
       "0", "1", "2", "3", "4", "5", "6", "7", "8", "9", ":", ";", "<", "=", ">", "?",
       "@", "A", "B", "C", "D", "E", "F", "G", "H", "I", "J", "K", "L", "M", "N", "O",
       "P", "Q", "R", "S", "T", "U", "V", "W", "X", "Y", "Z", "[", "\\", "]", "^", "_",
       "(96)", "a", "b", "c", "d", "e", "f", "g", "h", "i", "j", "k", "l", "m", "n", "o",
       "p", "q", "r", "s", "t", "u", "v", "w", "x", "y", "z", "{", "|", "}", "~" >>

Chars == {Ascii[i] : i \in 1..Len(Ascii)}

OrdTable == [c \in Chars |-> 31 + CHOOSE i \in 1..Len(Ascii) : Ascii[i] = c]

\* The byte value of a character.
Ord(c) == OrdTable[c]

Chr(n) == Ascii[n - 31]

IsDigit(c) == Ord(c) >= 48 /\ Ord(c) <= 57

IsUpper(c) == Ord(c) >= 65 /\ Ord(c) <= 90

IsLower(c) == Ord(c) >= 97 /\ Ord(c) <= 122

\* The regular expression class \w.
IsWordChar(c) == IsDigit(c) \/ IsUpper(c) \/ IsLower(c) \/ c = "_"

\* The regular expression class \s, over the characters of the model.
IsSpace(c) == c = " "

\* strings.ToLower on ASCII text.
ToLower(s) == [i \in 1..Len(s) |-> IF IsUpper(s[i]) THEN Chr(Ord(s[i]) + 32) ELSE s[i]]

\* strings.ToUpper on ASCII text.
ToUpper(s) == [i \in 1..Len(s) |-> IF IsLower(s[i]) THEN Chr(Ord(s[i]) - 32) ELSE s[i]]

\* Go's string comparison a < b: byte-wise lexicographic order.
RECURSIVE StrLess(_, _)
StrLess(a, b) ==
    IF b = <<>> THEN FALSE
    ELSE IF a = <<>> THEN TRUE
    ELSE IF Ord(Head(a)) # Ord(Head(b)) THEN Ord(Head(a)) < Ord(Head(b))
    ELSE StrLess(Tail(a), Tail(b))

HasPrefix(s, p) == Len(p) <= Len(s) /\ SubSeq(s, 1, Len(p)) = p

HasSuffix(s, p) == Len(p) <= Len(s) /\ SubSeq(s, Len(s) - Len(p) + 1, Len(s)) = p

\* strings.Contains: scan s from the left for the first place substr starts.
RECURSIVE Contains(_, _)
Contains(s, substr) ==
    IF HasPrefix(s, substr) THEN TRUE
    ELSE IF s = <<>> THEN FALSE
    ELSE Contains(Tail(s), substr)

\* strings.Trim(s, cutset): drop every leading and trailing character of cutset.
RECURSIVE TrimLeft(_, _)
TrimLeft(s, cutset) ==
    IF s # <<>> /\ Head(s) \in cutset THEN TrimLeft(Tail(s), cutset) ELSE s

RECURSIVE TrimRight(_, _)
TrimRight(s, cutset) ==
    IF s # <<>> /\ s[Len(s)] \in cutset
    THEN TrimRight(SubSeq(s, 1, Len(s) - 1), cutset)
    ELSE s

Trim(s, cutset) == TrimRight(TrimLeft(s, cutset), cutset)

\* strings.TrimSpace.
TrimSpace(s) == Trim(s, {" "})

AllDigits(s) == \A i \in 1..Len(s) : IsDigit(s[i])

\* The value of a run of decimal digits.
RECURSIVE DigitsValue(_)
DigitsValue(s) ==
    IF s = <<>> THEN 0
    ELSE 10 * DigitsValue(SubSeq(s, 1, Len(s) - 1)) + (Ord(s[Len(s)]) - 48)

\* The decimal digits of a natural number, no leading zeros.
RECURSIVE NatDigits(_)
NatDigits(n) ==
    IF n < 10 THEN <<Chr(48 + n)>>
    ELSE NatDigits(n \div 10) \o <<Chr(48 + (n % 10))>>

RECURSIVE Pow10(_)
Pow10(k) == IF k = 0 THEN 1 ELSE 10 * Pow10(k - 1)

-----------------------------------------------------------------------------
(* Numbers and booleans in text: strconv                                   *)
(*                                                                         *)
(* The strings of the model are short and hold no exponent, hexadecimal    *)
(* prefix or digit separator ("e", "x", "p", "_" next to digits), so a     *)
(* number in text is a sign, digits and at most one point, or a spelling   *)
(* of infinity or not-a-number.                                            *)

NoNumber == [ok |-> FALSE]

\* strconv.Atoi: an optional sign and one or more decimal digits.
Atoi(s) ==
    LET signed == s # <<>> /\ Head(s) \in {"+", "-"}
        digits == IF signed THEN Tail(s) ELSE s
    IN  IF digits = <<>> \/ ~AllDigits(digits) THEN NoNumber
        ELSE [ok |-> TRUE,
              v  |-> IF signed /\ Head(s) = "-" THEN 0 - DigitsValue(digits)
                     ELSE DigitsValue(digits)]

\* strconv.ParseInt(s, 10, 64) accepts what Atoi accepts.
ParseInt(s) == Atoi(s)

\* A finite float is neg, n, k: the number (-1)^neg * n / 10^k, with n not a
\* multiple of 10 unless k = 0 (the shortest decimal that denotes it).
RECURSIVE Normalise(_, _, _)
Normalise(neg, n, k) ==
    IF k > 0 /\ n % 10 = 0 THEN Normalise(neg, n \div 10, k - 1)
    ELSE [ok |-> TRUE, kind |-> "finite", neg |-> neg, n |-> n, k |-> k]

Infinity(neg) == [ok |-> TRUE, kind |-> "inf", neg |-> neg, n |-> 0, k |-> 0]

NaN == [ok |-> TRUE, kind |-> "nan", neg |-> FALSE, n |-> 0, k |-> 0]

InfSpellings == { <<"i", "n", "f">>, <<"i", "n", "f", "i", "n", "i", "t", "y">> }

\* strconv.ParseFloat(s, 64): special() first, then readFloat's decimal syntax.
ParseFloat(s) ==
    LET signed == s # <<>> /\ Head(s) \in {"+", "-"}
        neg    == signed /\ Head(s) = "-"
        body   == IF signed THEN Tail(s) ELSE s
        dots   == {i \in 1..Len(body) : body[i] = "."}
        whole  == IF dots = {} THEN body
                  ELSE SubSeq(body, 1, (CHOOSE i \in dots : TRUE) - 1)
        frac   == IF dots = {} THEN <<>>
                  ELSE SubSeq(body, (CHOOSE i \in dots : TRUE) + 1, Len(body))
    IN  IF ToLower(body) \in InfSpellings THEN Infinity(neg)
        ELSE IF ~signed /\ ToLower(s) = <<"n", "a", "n">> THEN NaN
        ELSE IF Cardinality(dots) > 1 THEN NoNumber
        ELSE IF ~AllDigits(whole) \/ ~AllDigits(frac) THEN NoNumber
        ELSE IF whole = <<>> /\ frac = <<>> THEN NoNumber
        ELSE Normalise(neg, DigitsValue(whole \o frac), Len(frac))

\* a < b for two parsed floats (NaN is below, above and equal to nothing).
FloatLess(a, b) ==
    IF a.kind = "nan" \/ b.kind = "nan" THEN FALSE
    ELSE IF a.kind = "inf" THEN a.neg /\ ~(b.kind = "inf" /\ b.neg)
    ELSE IF b.kind = "inf" THEN ~b.neg
    ELSE LET sa == IF a.neg THEN 0 - a.n ELSE a.n
             sb == IF b.neg THEN 0 - b.n ELSE b.n
         IN  sa * Pow10(b.k) < sb * Pow10(a.k)

\* a == b for two parsed floats (-0 equals 0).
FloatEq(a, b) ==
    IF a.kind = "nan" \/ b.kind = "nan" THEN FALSE
    ELSE IF a.kind = "inf" \/ b.kind = "inf"
         THEN a.kind = b.kind /\ a.neg = b.neg
    ELSE a.n = b.n /\ a.k = b.k /\ (a.neg = b.neg \/ a.n = 0)

TrueSpellings ==
    { <<"1">>, <<"t">>, <<"T">>, <<"T", "R", "U", "E">>, <<"t", "r", "u", "e">>,
      <<"T", "r", "u", "e">> }

FalseSpellings ==
    { <<"0">>, <<"f">>, <<"F">>, <<"F", "A", "L", "S", "E">>,
      <<"f", "a", "l", "s", "e">>, <<"F", "a", "l", "s", "e">> }

\* strconv.ParseBool.
ParseBool(s) ==
    IF s \in TrueSpellings THEN [ok |-> TRUE, v |-> TRUE]
    ELSE IF s \in FalseSpellings THEN [ok |-> TRUE, v |-> FALSE]
    ELSE NoNumber

-----------------------------------------------------------------------------
(* Values: what an interface{} holds, and its text under "%v"              *)

\* Every value has the same shape, whatever it holds: t is its dynamic type,
\* s the text of a string; n the number of an int, 1 or 0 for a bool; and
\* kind, neg, n, k the float (see Normalise).
Value(t, s, n, k, neg, kind) ==
    [t |-> t, s |-> s, n |-> n, k |-> k, neg |-> neg, kind |-> kind]

IntVal(n) == Value("int", <<>>, n, 0, FALSE, "finite")

FloatVal(f) == Value("float", <<>>, f.n, f.k, f.neg, f.kind)

BoolVal(b) == Value("bool", <<>>, IF b THEN 1 ELSE 0, 0, FALSE, "finite")

StrVal(s) == Value("string", s, 0, 0, FALSE, "finite")

\* The nil interface: a position of a made row that nothing was stored in.
NilVal == Value("nil", <<>>, 0, 0, FALSE, "finite")

FormatInt(n) == IF n < 0 THEN <<"-">> \o NatDigits(0 - n) ELSE NatDigits(n)

\* The k digits of n, zero-padded on the left.
RECURSIVE PadDigits(_, _)
PadDigits(n, k) ==
    IF k = 0 THEN <<>> ELSE PadDigits(n \div 10, k - 1) \o <<Chr(48 + (n % 10))>>

\* "%v" of a float64: the shortest decimal, without exponent in the range of
\* the model (1e-4 <= |f| < 1e21, or zero).
FormatFloat(f) ==
    IF f.kind = "nan" THEN <<"N", "a", "N">>
    ELSE IF f.kind = "inf"
         THEN (IF f.neg THEN <<"-">> ELSE <<"+">>) \o <<"I", "n", "f">>
    ELSE (IF f.neg THEN <<"-">> ELSE <<>>)
         \o NatDigits(f.n \div Pow10(f.k))
         \o (IF f.k = 0 THEN <<>> ELSE <<".">> \o PadDigits(f.n % Pow10(f.k), f.k))

\* fmt.Sprintf("%v", x).
Sprint(x) ==
    CASE x.t = "string" -> x.s
      [] x.t = "int"    -> FormatInt(x.n)
      [] x.t = "float"  -> FormatFloat(x)
      [] x.t = "bool"   -> IF x.n = 1 THEN <<"t", "r", "u", "e">>
                           ELSE <<"f", "a", "l", "s", "e">>
      [] x.t = "nil"    -> <<"<", "n", "i", "l", ">">>

-----------------------------------------------------------------------------
(* The Query and its builder (sheetsql.go)                                 *)

\* WhereClause{Column, Operator, Value}.
WhereClause(column, operator, value) ==
    [Column |-> column, Operator |-> operator, Value |-> value]

\* Client.From: a fresh Query on the sheet, no clauses, limit and offset 0.
From(sheetName) ==
    [sheetName |-> sheetName, where |-> <<>>, limit |-> 0, offset |-> 0]

\* The clause put in front of the list.
Where_inFront(q, column, operator, value) ==
    [q EXCEPT !.where = <<WhereClause(column, operator, value)>> \o @]

\* Query.Where: append the clause, whatever the operator is.
Where(q, column, operator, value) ==
    [q EXCEPT !.where = Append(@, WhereClause(column, operator, value))]

\* Query.Limit.
Limit(q, limit) == [q EXCEPT !.limit = limit]

\* Query.Offset.
Offset(q, offset) == [q EXCEPT !.offset = offset]

-----------------------------------------------------------------------------
(* The predicate evaluator (sheetsql.go)                                   *)

\* headers: the text of each cell of the first fetched row.
Headers(values) == [i \in 1..Len(values[1]) |-> Sprint(values[1][i])]

\* fieldMap: header text to 0-based column index; of two columns with the
\* same header the later assignment stays.
FieldMap(headers) ==
    [h \in {headers[i] : i \in 1..Len(headers)} |->
        (CHOOSE i \in 1..Len(headers) :
            headers[i] = h /\ \A j \in 1..Len(headers) : headers[j] = h => j <= i) - 1]

\* The operator strings of the code.
OpEq == <<"=">>

OpEqEq == <<"=", "=">>

OpNe == <<"!", "=">>

OpGt == <<">">>

OpLt == <<"<">>

OpGe == <<">", "=">>

OpLe == <<"<", "=">>

OpLike == <<"L", "I", "K", "E">>

\* (C9) the operands are compared as strings even when both are numbers
compareValues_textOnly(a, b, operator) ==
    CASE operator = OpGt -> StrLess(b, a)
      [] operator = OpLt -> StrLess(a, b)
      [] operator = OpGe -> ~StrLess(a, b)
      [] operator = OpLe -> ~StrLess(b, a)
      [] OTHER -> FALSE

\* Query.compareValues: numeric when both a and b parse as floats, else
\* by string order; false for any other operator.
compareValues(a, b, operator) ==
    LET aFloat == ParseFloat(a)
        bFloat == ParseFloat(b)
    IN  IF aFloat.ok /\ bFloat.ok /\ operator \in {OpGt, OpLt, OpGe, OpLe}
        THEN CASE operator = OpGt -> FloatLess(bFloat, aFloat)
               [] operator = OpLt -> FloatLess(aFloat, bFloat)
               [] operator = OpGe -> FloatLess(bFloat, aFloat) \/ FloatEq(aFloat, bFloat)
               [] operator = OpLe -> FloatLess(aFloat, bFloat) \/ FloatEq(aFloat, bFloat)
        ELSE CASE operator = OpGt -> StrLess(b, a)
               [] operator = OpLt -> StrLess(a, b)
               [] operator = OpGe -> ~StrLess(a, b)
               [] operator = OpLe -> ~StrLess(b, a)
               [] OTHER -> FALSE

\* (C10) LIKE looks for the value as it is spelled
likeMatches_caseSensitive(cellValue, expectedValue) == Contains(cellValue, expectedValue)

\* The LIKE arm of matchesWhere's switch.
likeMatches(cellValue, expectedValue) ==
    Contains(ToLower(cellValue), ToLower(expectedValue))

\* (C2) a clause on a column the row does not have rejects the row
skipClause_rejects == FALSE

\* "continue" for a clause whose column is not in fieldMap or lies beyond the
\* row's last cell: the clause does not reject the row.
skipClause == TRUE

\* One clause against one row: the body of matchesWhere's loop. TRUE is
\* "continue", FALSE is "return false".
clausePasses(clause, row, fieldMap) ==
    IF clause.Column \notin DOMAIN fieldMap THEN skipClause
    ELSE LET colIndex == fieldMap[clause.Column]
         IN  IF colIndex >= Len(row) THEN skipClause
             ELSE LET cellValue     == Sprint(row[colIndex + 1])
                      expectedValue == Sprint(clause.Value)
                      operator      == clause.Operator
                  IN  CASE operator \in {OpEq, OpEqEq} -> cellValue = expectedValue
                        [] operator = OpNe -> cellValue # expectedValue
                        [] operator \in {OpGt, OpLt, OpGe, OpLe} ->
                               compareValues(cellValue, expectedValue, operator)
                        [] operator = OpLike -> likeMatches(cellValue, expectedValue)
                        [] OTHER -> TRUE

\* (C11) the row matches as soon as its first clause passes
matchesWhere_firstOnly(where, row, fieldMap) ==
    where = <<>> \/ clausePasses(Head(where), row, fieldMap)

\* Query.matchesWhere: the first clause that fails rejects the row.
RECURSIVE matchesWhere(_, _, _)
matchesWhere(where, row, fieldMap) ==
    IF where = <<>> THEN TRUE
    ELSE IF ~clausePasses(Head(where), row, fieldMap) THEN FALSE
    ELSE matchesWhere(Tail(where), row, fieldMap)

-----------------------------------------------------------------------------
(* The record binder (sheetsql.go)                                         *)
(*                                                                         *)
(* A struct type is a sequence of fields, each with its Go name, its       *)
(* "sheet" tag ("" when untagged) and its kind; a struct value is the      *)
(* sequence of its fields' values. A field is exported when its name       *)
(* begins with a capital.                                                  *)

Field(name, tag, kind) == [Name |-> name, Tag |-> tag, Kind |-> kind]

\* The kinds setFieldValue's switch knows; any other kind is its default arm.
SupportedKinds == {"string", "int", "float", "bool"}

\* The zero value of a field of the kind (reflect.New(elemType).Elem()).
ZeroValue(kind) ==
    CASE kind = "string" -> StrVal(<<>>)
      [] kind = "int"    -> IntVal(0)
      [] kind = "float"  -> FloatVal(Normalise(FALSE, 0, 0))
      [] kind = "bool"   -> BoolVal(FALSE)
      [] OTHER           -> NilVal

\* fieldValue.CanSet() on a field of an addressable struct: the field is
\* exported.
CanSet(field) == IsUpper(field.Name[1])

\* (C20) a field is bound to the column of its name, whatever its tag
tagValue_nameOnly(field) == field.Name

\* The column a field is bound to: its tag, or its name when the tag is empty.
tagValue(field) == IF field.Tag = <<>> THEN field.Name ELSE field.Tag

\* Query.setFieldValue: ok and the value set, or the error.
setFieldValue(kind, value) ==
    CASE kind = "string" -> [ok |-> TRUE, v |-> StrVal(value)]
      [] kind = "int" ->
            IF value = <<>> THEN [ok |-> TRUE, v |-> IntVal(0)]
            ELSE LET intVal == ParseInt(value)
                 IN  IF intVal.ok THEN [ok |-> TRUE, v |-> IntVal(intVal.v)]
                     ELSE [ok |-> FALSE, v |-> NilVal]
      [] kind = "float" ->
            IF value = <<>> THEN [ok |-> TRUE, v |-> FloatVal(Normalise(FALSE, 0, 0))]
            ELSE LET floatVal == ParseFloat(value)
                 IN  IF floatVal.ok THEN [ok |-> TRUE, v |-> FloatVal(floatVal)]
                     ELSE [ok |-> FALSE, v |-> NilVal]
      [] kind = "bool" ->
            IF value = <<>> THEN [ok |-> TRUE, v |-> BoolVal(FALSE)]
            ELSE LET boolVal == ParseBool(value)
                 IN  IF boolVal.ok THEN [ok |-> TRUE, v |-> BoolVal(boolVal.v)]
                     ELSE [ok |-> FALSE, v |-> NilVal]
      [] OTHER -> [ok |-> FALSE, v |-> NilVal]

\* What mapRowToStruct's loop does for field i: skip it (the field keeps its
\* zero value), set it, or fail.
bindField(field, row, fieldMap) ==
    IF ~CanSet(field) THEN [ok |-> TRUE, v |-> ZeroValue(field.Kind)]
    ELSE IF tagValue(field) \notin DOMAIN fieldMap THEN [ok |-> TRUE, v |-> ZeroValue(field.Kind)]
    ELSE LET colIndex == fieldMap[tagValue(field)]
         IN  IF colIndex >= Len(row) THEN [ok |-> TRUE, v |-> ZeroValue(field.Kind)]
             ELSE setFieldValue(field.Kind, Sprint(row[colIndex + 1]))

\* Query.mapRowToStruct: the struct filled from the row, or the name of the
\* first field that could not be set.
mapRowToStruct(row, fieldMap, destType) ==
    LET bound  == [i \in 1..Len(destType) |-> bindField(destType[i], row, fieldMap)]
        failed == {i \in 1..Len(destType) : ~bound[i].ok}
    IN  IF failed = {}
        THEN [ok |-> TRUE, elem |-> [i \in 1..Len(destType) |-> bound[i].v], field |-> <<>>]
        ELSE [ok |-> FALSE, elem |-> <<>>,
              field |-> destType[CHOOSE i \in failed : \A j \in failed : i <= j].Name]

\* (C4) of the fields bound to a column the first one is written, not the last
lastFieldFor_first(header, dataType) ==
    LET bound == {i \in 1..Len(dataType) : tagValue(dataType[i]) = header}
    IN  IF bound = {} THEN 0 ELSE CHOOSE i \in bound : \A j \in bound : i <= j

\* The field whose value a column of a written row holds: of the fields bound
\* to the header, the last one in struct order (later assignments overwrite).
lastFieldFor(header, dataType) ==
    LET bound == {i \in 1..Len(dataType) : tagValue(dataType[i]) = header}
    IN  IF bound = {} THEN 0 ELSE CHOOSE i \in bound : \A j \in bound : j <= i

\* The loop of Insert and Update over the struct's fields: row[colIndex] takes
\* the field's value for every field whose column is in fieldMap.
storeFields(row, headers, fieldMap, dataType, dataValue) ==
    [c \in 1..Len(row) |->
        LET h == IF c <= Len(headers) THEN headers[c] ELSE <<>>
            i == IF c <= Len(headers) /\ fieldMap[h] = c - 1
                 THEN lastFieldFor(h, dataType) ELSE 0
        IN  IF i = 0 THEN row[c] ELSE dataValue[i]]

\* make([]interface{}, n): n nil cells.
makeRow(n) == [c \in 1..n |-> NilVal]

\* (C21) the fields are stored from the first column on, in the order the
\* struct declares them
insertRow_packed(headers, fieldMap, dataType, dataValue) ==
    [c \in 1..Len(headers) |-> IF c <= Len(dataValue) THEN dataValue[c] ELSE NilVal]

\* Insert's row: as wide as the header, the bound fields stored in it.
insertRow(headers, fieldMap, dataType, dataValue) ==
    storeFields(makeRow(Len(headers)), headers, fieldMap, dataType, dataValue)

\* (C29) updatedRow starts blank, the fetched row is not copied into it
copyRow_blank(updatedRow, row) == updatedRow

\* copy(updatedRow, row): the first min(len) cells of row over updatedRow.
copyRow(updatedRow, row) ==
    [c \in 1..Len(updatedRow) |-> IF c <= Len(row) THEN row[c] ELSE updatedRow[c]]

\* Update's updatedRow for one matched row.
updateRow(row, headers, fieldMap, dataType, dataValue) ==
    storeFields(copyRow(makeRow(Len(headers)), row), headers, fieldMap, dataType, dataValue)

-----------------------------------------------------------------------------
(* The store and the calls on a Query (sheetsql.go)                        *)
(*                                                                         *)
(* The store is the spreadsheet service. A call sends it requests; each    *)
(* request may fail. Between two requests of one call the store may be     *)
(* seen in its intermediate state.                                         *)

NoError == "nil"

\* No return yet: the call is running.
Running == "(running)"

ErrReadSheet == "failed to read sheet"

ErrReadHeaders == "failed to read headers"

ErrNoData == "no data found in sheet"

ErrNoHeaders == "no headers found in sheet"

ErrMapRow == "failed to map row to struct"

ErrNoRowsMatched == "no rows matched the where conditions"

ErrUpdateRow == "failed to update row"

ErrDeleteRow == "failed to delete row"

ErrInsertRow == "failed to insert row"

\* (C1) the offset test is off by one
beforeOffset_offByOne(q, rowIndex) == q.offset > 0 /\ rowIndex <= q.offset

\* Get's offset test on a matching row: it is skipped when its position among
\* all data rows is below the offset.
beforeOffset(q, rowIndex) == q.offset > 0 /\ rowIndex < q.offset

\* Get's limit test: the destination already holds limit elements.
limitReached(q, sliceValue) == q.limit > 0 /\ Len(sliceValue) >= q.limit

\* The loop of Get over resp.Values[1:], from data row rowIndex (0-based) on:
\* the slice it leaves in dest and the error it returns.
RECURSIVE getLoop(_, _, _, _, _, _)
getLoop(q, rows, rowIndex, fieldMap, elemType, sliceValue) ==
    IF rowIndex >= Len(rows) THEN [slice |-> sliceValue, err |-> NoError]
    ELSE LET row == rows[rowIndex + 1]
         IN  IF ~matchesWhere(q.where, row, fieldMap)
             THEN getLoop(q, rows, rowIndex + 1, fieldMap, elemType, sliceValue)
             ELSE IF beforeOffset(q, rowIndex)
             THEN getLoop(q, rows, rowIndex + 1, fieldMap, elemType, sliceValue)
             ELSE IF limitReached(q, sliceValue)
             THEN [slice |-> sliceValue, err |-> NoError]
             ELSE LET mapped == mapRowToStruct(row, fieldMap, elemType)
                  IN  IF ~mapped.ok THEN [slice |-> sliceValue, err |-> ErrMapRow]
                      ELSE getLoop(q, rows, rowIndex + 1, fieldMap, elemType,
                                   Append(sliceValue, mapped.elem))

\* Query.Get once the read has answered with values: nothing to do for a
\* sheet without rows, else the loop over the data rows.
getRows(q, values, elemType, sliceValue) ==
    IF Len(values) = 0 THEN [slice |-> sliceValue, err |-> NoError]
    ELSE getLoop(q, Tail(values), 0, FieldMap(Headers(values)), elemType, sliceValue)

\* (C28) the match loop skips the rows before the offset and stops at the
\* limit, as Get's loop does
matchedRows_paged(q, values) ==
    LET matched == {rowIndex \in 0..(Len(values) - 2) :
                       /\ matchesWhere(q.where, values[rowIndex + 2], FieldMap(Headers(values)))
                       /\ ~beforeOffset(q, rowIndex)}
    IN  {rowIndex \in matched :
            q.limit > 0 => Cardinality({other \in matched : other < rowIndex}) < q.limit}

\* The data rows of values (0-based positions) that satisfy q's clauses.
matchedRows(q, values) ==
    {rowIndex \in 0..(Len(values) - 2) :
        matchesWhere(q.where, values[rowIndex + 2], FieldMap(Headers(values)))}

\* The members of a set of numbers in ascending order.
RECURSIVE Ascending(_)
Ascending(S) ==
    IF S = {} THEN <<>>
    ELSE LET m == CHOOSE x \in S : \A y \in S : x <= y
         IN  <<m>> \o Ascending(S \ {m})

\* The loop of Update over resp.Values[1:]: for each matched row, in order,
\* the sheet row to write (rowIndex + 2) and the updatedRow written there.
updatePlan(q, values, dataType, dataValue) ==
    LET headers  == Headers(values)
        fieldMap == FieldMap(headers)
        matched  == Ascending(matchedRows(q, values))
    IN  [i \in 1..Len(matched) |->
            [actualRowIndex |-> matched[i] + 2,
             row |-> updateRow(values[matched[i] + 2], headers, fieldMap,
                               dataType, dataValue)]]

\* (C23) a matched row is noted by its place among the data rows
rowsToDelete_dataPosition(q, values) ==
    LET matched == Ascending(matchedRows(q, values))
    IN  [i \in 1..Len(matched) |-> matched[i] + 1]

\* rowsToDelete of Delete: the sheet row of every matched row, ascending.
rowsToDelete(q, values) ==
    LET matched == Ascending(matchedRows(q, values))
    IN  [i \in 1..Len(matched) |-> matched[i] + 2]

\* The order Delete's second loop takes rowsToDelete in: from the last down.
Reversed(s) == [i \in 1..Len(s) |-> s[Len(s) + 1 - i]]

-----------------------------------------------------------------------------
(* The spreadsheet service, as the calls use it                            *)

Blank == StrVal(<<>>)

\* How the sheet shows a value written with ValueInputOption("RAW").
rendered(x) ==
    IF x.t = "bool" THEN StrVal(ToUpper(Sprint(x))) ELSE StrVal(Sprint(x))

\* Values.Get returns a row without its trailing blank cells.
RECURSIVE trimRow(_)
trimRow(row) ==
    IF row # <<>> /\ row[Len(row)] = Blank THEN trimRow(SubSeq(row, 1, Len(row) - 1))
    ELSE row

\* Writing the cells of new over the row old: a nil cell leaves the cell as it is.
storeWriteRow(old, new) ==
    LET width == IF Len(old) > Len(new) THEN Len(old) ELSE Len(new)
    IN  trimRow([c \in 1..width |->
            IF c <= Len(new) /\ new[c] # NilVal THEN rendered(new[c])
            ELSE IF c <= Len(old) THEN old[c]
            ELSE Blank])

\* Values.Update on the range A<n>:Z<n> (row n of the sheet, the header is row 1).
storeUpdate(rows, n, row) ==
    LET padded == [r \in 1..(IF n > Len(rows) THEN n ELSE Len(rows)) |->
                      IF r <= Len(rows) THEN rows[r] ELSE <<>>]
    IN  [padded EXCEPT ![n] = storeWriteRow(@, row)]

\* Values.Append with InsertDataOption("INSERT_ROWS"): a new row after the last.
storeAppend(rows, row) == Append(rows, storeWriteRow(<<>>, row))

\* DeleteDimension of ROWS [startIndex, endIndex), 0-based.
storeDelete(rows, startIndex, endIndex) ==
    LET kept == {r \in 1..Len(rows) : ~(r - 1 >= startIndex /\ r - 1 < endIndex)}
        order == Ascending(kept)
    IN  [i \in 1..Len(order) |-> rows[order[i]]]

\* A request sent to the store: its kind, the sheet row it names (0: none),
\* the cells it carries, and whether the store carried it out.
Request(kind, at, row, ok) ==
    [kind |-> kind, sheetId |-> -1, at |-> at, row |-> row, ok |-> ok]

\* A request that names its sheet by id: the deletion of sheet row at.
DeleteRequest(sheetId, at, ok) ==
    [kind |-> "delete", sheetId |-> sheetId, at |-> at, row |-> <<>>, ok |-> ok]

-----------------------------------------------------------------------------
(* The texts of the model                                                  *)

sUsers == <<"U", "s", "e", "r", "s">>

sName == <<"N", "a", "m", "e">>

sAge == <<"A", "g", "e">>

sYears == <<"Y", "e", "a", "r", "s">>

sCity == <<"C", "i", "t", "y">>

sAnn == <<"A", "n", "n">>

sBob == <<"B", "o", "b">>

sCy == <<"C", "y">>

\* type User struct { Name string; Years int `sheet:"Age"` }
UserType == << Field(sName, <<>>, "string"), Field(sYears, sAge, "int") >>

UserHeader == << StrVal(sName), StrVal(sAge) >>

-----------------------------------------------------------------------------
(* Bounds                                                                  *)

\* Data rows of a sheet of the store.
MaxRows == 3

\* Calls begun in one run.
MaxCalls == 1

-----------------------------------------------------------------------------
(* The calls on a Query, against the store: specification Spec             *)

\* The rows a sheet starts with.
SpecRows ==
    { << StrVal(sAnn), StrVal(<<"7">>) >>,
      << StrVal(sBob), StrVal(<<"9">>) >>,
      << StrVal(sAnn) >> }

\* All sequences over S of length at most n.
RECURSIVE SeqsUpTo(_, _)
SeqsUpTo(S, n) ==
    IF n = 0 THEN {<<>>}
    ELSE LET shorter == SeqsUpTo(S, n - 1)
         IN  shorter \cup {Append(q, x) : q \in shorter, x \in S}

\* A sheet without any row, or a header and up to MaxRows data rows.
SpecSheets == {<<>>} \cup {<<UserHeader>> \o rows : rows \in SeqsUpTo(SpecRows, MaxRows)}

\* The records a caller hands to Insert and Update.
SpecData == { << StrVal(sCy), IntVal(5) >>, << StrVal(sAnn), IntVal(0) >> }

\* The Queries a caller builds: From, then Where, Limit and Offset calls.
SpecWheres ==
    { From(sUsers),
      Where(From(sUsers), sName, OpEq, StrVal(sAnn)),
      Where(From(sUsers), sAge, OpGt, IntVal(7)),
      Where(From(sUsers), sCity, OpEq, StrVal(sAnn)),
      Where(Where(From(sUsers), sName, OpEq, StrVal(sAnn)), sAge, OpLe, IntVal(7)) }

SpecQueries == {Offset(Limit(q, l), o) : q \in SpecWheres, l \in 0..1, o \in 0..1}

Sheet0Rows == << UserHeader, << StrVal(sCy), StrVal(<<"1">>) >>, << StrVal(sCy), StrVal(<<"2">>) >> >>

NoCall == [fn |-> "none", values |-> <<>>, values0 |-> <<>>, dest |-> <<>>]

NoData == <<>>

Init ==
    /\ sheet \in SpecSheets
    /\ sheet0 = Sheet0Rows
    /\ query = From(sUsers)
    /\ data = NoData
    /\ pc = "idle"
    /\ todo = <<>>
    /\ dest = <<>>
    /\ err = NoError
    /\ requests = <<>>
    /\ calls = 0
    /\ input = NoCall
    /\ output = <<>>

\* What a call records as it begins: the rows its read returned, the rows of
\* the sheet with id 0 at that time, and the destination as it was handed in.
Began(fn, values) == [fn |-> fn, values |-> values, values0 |-> sheet0, dest |-> dest]

\* q.Get(&dest) with dest a slice of User: one read, then the loop.
GetOf(q) ==
    /\ pc = "idle"
    /\ calls < MaxCalls
    /\ calls' = calls + 1
    /\ query' = q
    /\ \/ /\ requests' = <<Request("read", 0, <<>>, FALSE)>>
          /\ err' = ErrReadSheet
          /\ input' = Began("Get", <<>>)
          /\ UNCHANGED dest
       \/ LET got == getRows(q, sheet, UserType, dest)
          IN  /\ requests' = <<Request("read", 0, <<>>, TRUE)>>
              /\ dest' = got.slice
              /\ err' = got.err
              /\ input' = Began("Get", sheet)
    /\ UNCHANGED <<storeVars, data, pc, todo, output>>

Get == \E q \in SpecQueries : GetOf(q)

\* The caller declares a new, empty destination slice.
NewDest ==
    /\ pc = "idle"
    /\ dest # <<>>
    /\ dest' = <<>>
    /\ UNCHANGED <<storeVars, query, data, pc, todo, err, requests, calls, studyVars>>

\* (C6) the loop goes on to the next row after a failed write
afterFailedWrite_goesOn(rest) == rest

\* What is left to write once a write has failed: the call returns at once.
afterFailedWrite(rest) == <<>>

\* What a write loop returns when it has run to its end.
afterLastWrite == NoError

\* (C5) the check for no matched row is missing
noRowsMatched_silent == NoError

\* What Update and Delete return when no row matched (updatedRows == 0,
\* len(rowsToDelete) == 0).
noRowsMatched == ErrNoRowsMatched

\* q.Update(d) with d of the struct type dataType, up to its first write:
\* the read, then the rows to write.
UpdateAs(q, dataType, d) ==
    /\ pc = "idle"
    /\ calls < MaxCalls
    /\ calls' = calls + 1
    /\ query' = q
    /\ data' = d
    /\ \/ /\ requests' = <<Request("read", 0, <<>>, FALSE)>>
          /\ err' = ErrReadSheet
          /\ input' = Began("Update", <<>>)
          /\ UNCHANGED <<pc, todo>>
       \/ /\ requests' = <<Request("read", 0, <<>>, TRUE)>>
          /\ input' = Began("Update", sheet)
          /\ IF Len(sheet) = 0
             THEN err' = ErrNoData /\ UNCHANGED <<pc, todo>>
             ELSE LET plan == updatePlan(q, sheet, dataType, d)
                  IN  IF Len(plan) = 0
                      THEN err' = noRowsMatched /\ UNCHANGED <<pc, todo>>
                      ELSE pc' = "updating" /\ todo' = plan /\ err' = Running
    /\ UNCHANGED <<storeVars, dest, output>>

\* q.Update(d) with d a User.
UpdateOf(q, d) == UpdateAs(q, UserType, d)

Update == \E q \in SpecQueries, d \in SpecData : UpdateOf(q, d)

\* The next Values.Update of a running Update: it writes the row, or fails and
\* ends the call.
UpdateWrite ==
    /\ pc = "updating"
    /\ LET next == Head(todo)
       IN  \/ /\ sheet' = storeUpdate(sheet, next.actualRowIndex, next.row)
              /\ requests' = Append(requests,
                                    Request("update", next.actualRowIndex, next.row, TRUE))
              /\ todo' = Tail(todo)
              /\ IF Tail(todo) = <<>>
                 THEN pc' = "idle" /\ err' = afterLastWrite
                 ELSE UNCHANGED <<pc, err>>
           \/ /\ requests' = Append(requests,
                                    Request("update", next.actualRowIndex, next.row, FALSE))
              /\ todo' = afterFailedWrite(Tail(todo))
              /\ err' = ErrUpdateRow
              /\ pc' = IF todo' = <<>> THEN "idle" ELSE pc
              /\ UNCHANGED sheet
    /\ UNCHANGED <<sheet0, query, data, dest, calls, studyVars>>

\* The id of the sheet named by the Query, and the id getSheetId returns when
\* its request fails or no sheet has the title.
NamedSheetId == 7

NoSheetId == 0

\* q.Delete(), up to its first deletion: the read, then rowsToDelete.
DeleteOf(q) ==
    /\ pc = "idle"
    /\ calls < MaxCalls
    /\ calls' = calls + 1
    /\ query' = q
    /\ \/ /\ requests' = <<Request("read", 0, <<>>, FALSE)>>
          /\ err' = ErrReadSheet
          /\ input' = Began("Delete", <<>>)
          /\ UNCHANGED <<pc, todo>>
       \/ /\ requests' = <<Request("read", 0, <<>>, TRUE)>>
          /\ input' = Began("Delete", sheet)
          /\ IF Len(sheet) = 0
             THEN err' = ErrNoData /\ UNCHANGED <<pc, todo>>
             ELSE LET rows == rowsToDelete(q, sheet)
                  IN  IF Len(rows) = 0
                      THEN err' = noRowsMatched /\ UNCHANGED <<pc, todo>>
                      ELSE pc' = "deleting" /\ todo' = Reversed(rows) /\ err' = Running
    /\ UNCHANGED <<storeVars, data, dest, output>>

Delete == \E q \in SpecQueries : DeleteOf(q)

\* The next deletion of a running Delete: getSheetId, then the BatchUpdate
\* that deletes rows [rowIndex - 1, rowIndex) of the sheet with that id.
DeleteWrite ==
    /\ pc = "deleting"
    /\ \E sheetId \in {NamedSheetId, NoSheetId} :
        LET rowIndex == Head(todo)
        IN  \/ /\ IF sheetId = NamedSheetId
                  THEN /\ sheet' = storeDelete(sheet, rowIndex - 1, rowIndex)
                       /\ UNCHANGED sheet0
                  ELSE /\ sheet0' = storeDelete(sheet0, rowIndex - 1, rowIndex)
                       /\ UNCHANGED sheet
               /\ requests' = Append(requests, DeleteRequest(sheetId, rowIndex, TRUE))
               /\ todo' = Tail(todo)
               /\ IF Tail(todo) = <<>>
                  THEN pc' = "idle" /\ err' = afterLastWrite
                  ELSE UNCHANGED <<pc, err>>
            \/ /\ requests' = Append(requests, DeleteRequest(sheetId, rowIndex, FALSE))
               /\ todo' = afterFailedWrite(Tail(todo))
               /\ err' = ErrDeleteRow
               /\ pc' = IF todo' = <<>> THEN "idle" ELSE pc
               /\ UNCHANGED <<sheet, sheet0>>
    /\ UNCHANGED <<query, data, dest, calls, studyVars>>

\* q.Insert(d) with d of the struct type dataType: the read of row 1, then
\* one Values.Append.
InsertAs(q, dataType, d) ==
    /\ pc = "idle"
    /\ calls < MaxCalls
    /\ Len(sheet) <= MaxRows
    /\ calls' = calls + 1
    /\ query' = q
    /\ data' = d
    /\ \/ /\ requests' = <<Request("read", 1, <<>>, FALSE)>>
          /\ err' = ErrReadHeaders
          /\ input' = Began("Insert", <<>>)
          /\ UNCHANGED sheet
       \/ /\ Len(sheet) = 0
          /\ requests' = <<Request("read", 1, <<>>, TRUE)>>
          /\ err' = ErrNoHeaders
          /\ input' = Began("Insert", <<>>)
          /\ UNCHANGED sheet
       \/ /\ Len(sheet) > 0
          /\ input' = Began("Insert", <<sheet[1]>>)
          /\ LET headers == Headers(sheet)
                 row     == insertRow(headers, FieldMap(headers), dataType, d)
             IN  \/ /\ requests' = <<Request("read", 1, <<>>, TRUE),
                                     Request("append", 0, row, TRUE)>>
                    /\ sheet' = storeAppend(sheet, row)
                    /\ err' = NoError
                 \/ /\ requests' = <<Request("read", 1, <<>>, TRUE),
                                     Request("append", 0, row, FALSE)>>
                    /\ err' = ErrInsertRow
                    /\ UNCHANGED sheet
    /\ UNCHANGED <<sheet0, pc, todo, dest, output>>

\* q.Insert(d) with d a User.
InsertOf(q, d) == InsertAs(q, UserType, d)

Insert == \E d \in SpecData : InsertOf(From(sUsers), d)

Next ==
    \/ NewDest
    \/ Get
    \/ Insert
    \/ Update
    \/ UpdateWrite
    \/ Delete
    \/ DeleteWrite

Spec == Init /\ [][Next]_vars

-----------------------------------------------------------------------------
(* Claims on the write calls                                               *)

\* Sheet row r of values (row 2 is the first data row) passes every clause of q.
Satisfies(q, values, r) ==
    \A i \in 1..Len(q.where) :
        clausePasses(q.where[i], values[r], FieldMap(Headers(values)))

\* The sheet rows of values that q selects.
SelectedRows(q, values) == {r \in 2..Len(values) : Satisfies(q, values, r)}

\* The write requests of the last call, in the order they were sent.
WriteRequests == SelectSeq(requests, LAMBDA r : r.kind \in {"update", "delete", "append"})

ReadAnswered == Len(requests) >= 1 /\ requests[1].ok

\* C5: an Update or Delete whose clauses select no data row of the fetched
\* sheet returns an error, "no rows matched" when the sheet has a header row
\* and "no data found" when it has no row at all, and sends no write request;
\* and an Update or Delete that returned nil had a write carried out.
C5_NoMatchIsAnError ==
    /\ ( /\ input.fn \in {"Update", "Delete"}
         /\ ReadAnswered
         /\ SelectedRows(query, input.values) = {} )
       => /\ pc = "idle"
          /\ err = IF Len(input.values) = 0 THEN ErrNoData ELSE ErrNoRowsMatched
          /\ WriteRequests = <<>>
    /\ (input.fn \in {"Update", "Delete"} /\ err = NoError)
       => \E i \in 1..Len(WriteRequests) : WriteRequests[i].ok

\* A Delete on a sheet with a header and data rows, none selected, has returned.
C5_Witness ==
    /\ input.fn = "Delete"
    /\ ReadAnswered
    /\ Len(input.values) >= 3
    /\ SelectedRows(query, input.values) = {}
    /\ err = ErrNoRowsMatched

\* The first n members of a set of numbers, ascending (descending: from the top).
FirstAscending(S, n) == {x \in S : Cardinality({y \in S : y < x}) < n}

FirstDescending(S, n) == {x \in S : Cardinality({y \in S : y > x}) < n}

\* The store after a failed multi-row write: the rows of values with the writes
\* that were carried out, and nothing else.
AfterUpdates(values, done) ==
    [r \in 1..Len(values) |->
        IF \E i \in 1..Len(done) : done[i].at = r
        THEN storeWriteRow(values[r], done[CHOOSE i \in 1..Len(done) : done[i].at = r].row)
        ELSE values[r]]

AfterDeletes(values, gone) ==
    LET kept == Ascending({r \in 1..Len(values) : r \notin gone})
    IN  [i \in 1..Len(kept) |-> values[kept[i]]]

\* C6: when the k-th write of an Update or Delete fails, the call has returned
\* the error, the k requests went to the first k selected rows in the loop's
\* order (ascending for Update, descending for Delete), the k-1 carried out
\* are all in the store, and no other row of the store has changed.
C6_NoRollback ==
    LET sent     == WriteRequests
        k        == Len(sent)
        selected == SelectedRows(query, input.values)
        done     == SubSeq(sent, 1, k - 1)
    IN  /\ (input.fn = "Update" /\ err = ErrUpdateRow)
           => /\ pc = "idle" /\ todo = <<>>
              /\ k >= 1 /\ ~sent[k].ok /\ \A i \in 1..(k - 1) : sent[i].ok
              /\ {sent[i].at : i \in 1..k} = FirstAscending(selected, k)
              /\ \A i \in 1..(k - 1) : sent[i].at < sent[i + 1].at
              /\ sheet = AfterUpdates(input.values, done)
              /\ sheet0 = input.values0
        /\ (input.fn = "Delete" /\ err = ErrDeleteRow)
           => /\ pc = "idle" /\ todo = <<>>
              /\ k >= 1 /\ ~sent[k].ok /\ \A i \in 1..(k - 1) : sent[i].ok
              /\ {sent[i].at : i \in 1..k} = FirstDescending(selected, k)
              /\ \A i \in 1..(k - 1) : sent[i].at > sent[i + 1].at
              /\ sheet = AfterDeletes(input.values,
                            {done[i].at : i \in {j \in 1..(k - 1) : done[j].sheetId = NamedSheetId}})
              /\ sheet0 = AfterDeletes(input.values0,
                            {done[i].at : i \in {j \in 1..(k - 1) : done[j].sheetId = NoSheetId}})

\* The second of three writes of an Update failed: one row written, one not.
C6_Witness ==
    /\ input.fn = "Update"
    /\ err = ErrUpdateRow
    /\ Len(WriteRequests) = 2
    /\ Cardinality(SelectedRows(query, input.values)) = 3
    /\ sheet # input.values

-----------------------------------------------------------------------------
(* Get's pagination: specification SpecPage                                *)

\* Data rows of a sheet that Get pages through.
MaxPageRows == 9

\* Data rows of a sheet that also holds rows Get cannot bind.
MaxBadRows == 3

\* The data row at 0-based position p: its Age cell is p, so that every row
\* binds to a different record. "match" rows are Ann's, "other" rows Bob's;
\* a "bad" row is Ann's with an Age that is no number.
PageRow(kind, p) ==
    << StrVal(IF kind = "other" THEN sBob ELSE sAnn),
       StrVal(IF kind = "bad" THEN <<"x">> ELSE NatDigits(p)) >>

PageSheet(kinds) == <<UserHeader>> \o [i \in 1..Len(kinds) |-> PageRow(kinds[i], i - 1)]

PageSheets ==
    {<<>>}
    \cup {PageSheet(kinds) : kinds \in SeqsUpTo({"match", "other"}, MaxPageRows)}
    \cup {PageSheet(kinds) : kinds \in SeqsUpTo({"match", "other", "bad"}, MaxBadRows)}

PageQueries ==
    {Offset(Limit(q, l), o) :
        q \in {From(sUsers), Where(From(sUsers), sName, OpEq, StrVal(sAnn))},
        l \in 0..2, o \in 0..2}

InitPage ==
    /\ sheet \in PageSheets
    /\ sheet0 = Sheet0Rows
    /\ query = From(sUsers)
    /\ data = NoData
    /\ pc = "idle"
    /\ todo = <<>>
    /\ dest = <<>>
    /\ err = NoError
    /\ requests = <<>>
    /\ calls = MaxCalls - 1
    /\ input = NoCall
    /\ output = <<>>

PageGet == \E q \in PageQueries : GetOf(q)

NextPage == PageGet

SpecPage == InitPage /\ [][NextPage]_vars

\* The sheet rows Get is to deliver, ascending: those q selects, at 0-based
\* data position offset or later, and the first limit of them when limit > 0.
Eligible(q, values) == {r \in SelectedRows(q, values) : r - 2 >= q.offset}

Delivered(q, values) ==
    Ascending(IF q.limit > 0 THEN FirstAscending(Eligible(q, values), q.limit)
              ELSE Eligible(q, values))

Binds(values, r) == mapRowToStruct(values[r], FieldMap(Headers(values)), UserType).ok

RecordOf(values, r) == mapRowToStruct(values[r], FieldMap(Headers(values)), UserType).elem

\* C1: Get on an empty destination leaves in it the records of exactly the
\* rows to deliver, in sheet order, when it returns nil; it returns the mapping
\* error only when one of those rows cannot be bound, and then leaves the
\* records of the rows before that one.
C1_GetDelivers ==
    (input.fn = "Get" /\ ReadAnswered /\ input.dest = <<>>) =>
        LET rows   == Delivered(query, input.values)
            unbound == {i \in 1..Len(rows) : ~Binds(input.values, rows[i])}
            upto   == IF unbound = {} THEN Len(rows)
                      ELSE (CHOOSE i \in unbound : \A j \in unbound : i <= j) - 1
        IN  /\ err = IF unbound = {} THEN NoError ELSE ErrMapRow
            /\ dest = [i \in 1..upto |-> RecordOf(input.values, rows[i])]

\* The rows at positions 0, 2, 4, 6, 8 match; offset 1, limit 2: the rows at
\* positions 2 and 4 were delivered.
C1_Witness ==
    /\ input.fn = "Get"
    /\ input.dest = <<>>
    /\ input.values = PageSheet(<<"match", "other", "match", "other", "match",
                                  "other", "match", "other", "match">>)
    /\ query.where # <<>> /\ query.offset = 1 /\ query.limit = 2
    /\ err = NoError
    /\ dest = << <<StrVal(sAnn), IntVal(2)>>, <<StrVal(sAnn), IntVal(4)>> >>

-----------------------------------------------------------------------------
(* The SQL front end (sql.go)                                              *)
(*                                                                         *)
(* A statement is trimmed and its runs of white space become one space, so *)
(* it is its words joined by single spaces. Every regular expression of    *)
(* the front end separates its parts by \s+, so it matches word by word;   *)
(* a lazy group takes the fewest words that let the rest match, an         *)
(* optional group is taken whenever it can be.                             *)

\* The words of s: its maximal runs of characters other than the space.
RECURSIVE Fields(_)
Fields(s) ==
    LET t == TrimLeft(s, {" "})
        spaces == {i \in 1..Len(t) : t[i] = " "}
        end == IF spaces = {} THEN Len(t) + 1
               ELSE CHOOSE i \in spaces : \A j \in spaces : i <= j
    IN  IF t = <<>> THEN <<>>
        ELSE <<SubSeq(t, 1, end - 1)>> \o Fields(SubSeq(t, end, Len(t)))

\* The words joined by single spaces.
RECURSIVE Join(_)
Join(words) ==
    IF words = <<>> THEN <<>>
    ELSE IF Len(words) = 1 THEN words[1]
    ELSE words[1] \o <<" ">> \o Join(Tail(words))

\* strings.TrimSpace, then every run of white space replaced by one space.
normalise(sql) == Join(Fields(sql))

\* (C17) a keyword is matched as it is spelled in the regular expression
EqualFold_exact(word, keyword) == word = keyword

\* A keyword under (?i).
EqualFold(word, keyword) == ToUpper(word) = keyword

\* \w+ over a whole word.
IsWord(word) == word # <<>> /\ \A i \in 1..Len(word) : IsWordChar(word[i])

\* \d+ over a whole word.
IsNumber(word) == word # <<>> /\ AllDigits(word)

kSELECT == <<"S", "E", "L", "E", "C", "T">>

kFROM == <<"F", "R", "O", "M">>

kWHERE == <<"W", "H", "E", "R", "E">>

kLIMIT == <<"L", "I", "M", "I", "T">>

kOFFSET == <<"O", "F", "F", "S", "E", "T">>

kAND == <<"A", "N", "D">>

kINSERT == <<"I", "N", "S", "E", "R", "T">>

kINTO == <<"I", "N", "T", "O">>

kUPDATE == <<"U", "P", "D", "A", "T", "E">>

kSET == <<"S", "E", "T">>

kDELETE == <<"D", "E", "L", "E", "T", "E">>

OpLtGt == <<"<", ">">>

ErrInvalidSQL == "invalid SQL syntax"

ErrParseWhere == "failed to parse WHERE clause"

\* What SQLParser.Query returns when parseSQL has refused the statement.
ErrParseSQL == "failed to parse SQL: invalid SQL syntax"

ErrParseSQLWhere == "failed to parse SQL: failed to parse WHERE clause"

ErrInvalidInsert == "invalid INSERT SQL syntax"

ErrInvalidUpdate == "invalid UPDATE SQL syntax"

ErrInvalidDelete == "invalid DELETE SQL syntax"

\* The end of selectRegex, (?:\s+LIMIT\s+(\d+))?(?:\s+OFFSET\s+(\d+))?$, on the
\* words left: whether it matches, and the digits it captures ("" for none).
limitOffset(rest) ==
    LET lim      == Len(rest) >= 2 /\ EqualFold(rest[1], kLIMIT) /\ IsNumber(rest[2])
        afterLim == IF lim THEN SubSeq(rest, 3, Len(rest)) ELSE rest
        off      == /\ Len(afterLim) >= 2
                    /\ EqualFold(afterLim[1], kOFFSET)
                    /\ IsNumber(afterLim[2])
        afterOff == IF off THEN SubSeq(afterLim, 3, Len(afterLim)) ELSE afterLim
    IN  [ok     |-> afterOff = <<>>,
         limit  |-> IF lim THEN rest[2] ELSE <<>>,
         offset |-> IF off THEN afterLim[2] ELSE <<>>]

\* The submatches of selectRegex after the table name: the words (.+?) has
\* taken and what the end has captured.
tailMatch(where, lo) ==
    [ok |-> lo.ok, where |-> where, limit |-> lo.limit, offset |-> lo.offset]

\* (.+?) taking the words 2..j of rest, the end matching what is left.
whereTail(rest, j) ==
    tailMatch(Join(SubSeq(rest, 2, j)), limitOffset(SubSeq(rest, j + 1, Len(rest))))

\* selectRegex after the table name: (?:\s+WHERE\s+(.+?))? and the end. The
\* lazy (.+?) takes words up to the first place where the end matches.
selectTail(rest) ==
    IF Len(rest) >= 2 /\ EqualFold(rest[1], kWHERE)
    THEN LET ends == {j \in 2..Len(rest) :
                         limitOffset(SubSeq(rest, j + 1, Len(rest))).ok}
         IN  whereTail(rest, CHOOSE j \in ends : \A i \in ends : j <= i)
    ELSE tailMatch(<<>>, limitOffset(rest))

\* The submatches of selectRegex with the table name and the tail matched.
selectMatch(table, tail) ==
    [ok |-> TRUE, table |-> table, where |-> tail.where,
     limit |-> tail.limit, offset |-> tail.offset]

\* selectRegex with FROM as word f.
selectFrom(words, f) ==
    selectMatch(words[f + 1], selectTail(SubSeq(words, f + 2, Len(words))))

\* selectRegex on the words of the statement: SELECT, a lazy column list up
\* to the first FROM after which the rest matches, the table name, the tail.
selectRegex(words) ==
    LET froms == {f \in 3..(Len(words) - 1) :
                     /\ EqualFold(words[f], kFROM)
                     /\ IsWord(words[f + 1])
                     /\ selectTail(SubSeq(words, f + 2, Len(words))).ok}
    IN  IF Len(words) < 4 \/ ~EqualFold(words[1], kSELECT) \/ froms = {}
        THEN [ok |-> FALSE, table |-> <<>>, where |-> <<>>, limit |-> <<>>, offset |-> <<>>]
        ELSE selectFrom(words, CHOOSE f \in froms : \A g \in froms : f <= g)

\* regexp (?i)\s+AND\s+ Split: the clause is cut at each AND that stands
\* between two words; the space a cut has used is not there for the next.
RECURSIVE splitAnd(_)
splitAnd(words) ==
    LET ands == {i \in 2..(Len(words) - 1) : EqualFold(words[i], kAND)}
    IN  IF ands = {} THEN <<Join(words)>>
        ELSE LET i == CHOOSE i \in ands : \A j \in ands : i <= j
             IN  <<Join(SubSeq(words, 1, i - 1))>>
                     \o splitAnd(SubSeq(words, i + 1, Len(words)))

\* The alternatives of operatorRegex, in its order.
Operators == << OpEq, OpNe, OpLtGt, OpLe, OpGe, OpLt, OpGt, OpLike >>

\* The first position from i on that holds no space (Len(s) + 1 if none).
RECURSIVE skipSpaces(_, _)
skipSpaces(s, i) == IF i <= Len(s) /\ s[i] = " " THEN skipSpaces(s, i + 1) ELSE i

\* The end of the run of word characters that starts at p.
RECURSIVE runEnd(_, _)
runEnd(s, p) == IF p < Len(s) /\ IsWordChar(s[p + 1]) THEN runEnd(s, p + 1) ELSE p

\* The alternatives that match at position o and leave something for (.+).
opsAt(s, o) ==
    {k \in 1..Len(Operators) :
        /\ o + Len(Operators[k]) - 1 < Len(s)
        /\ SubSeq(s, o, o + Len(Operators[k]) - 1) = Operators[k]}

\* (\w+) from p: the longest column p..e, e <= eMax, after which an operator
\* matches (0 if none): \w+ gives characters back one by one.
RECURSIVE columnEnd(_, _, _)
columnEnd(s, p, e) ==
    IF e < p THEN 0
    ELSE IF opsAt(s, skipSpaces(s, e + 1)) # {} THEN e
    ELSE columnEnd(s, p, e - 1)

\* The leftmost position from p on where operatorRegex matches (0 if none).
RECURSIVE matchStart(_, _)
matchStart(s, p) ==
    IF p > Len(s) THEN 0
    ELSE IF IsWordChar(s[p]) /\ columnEnd(s, p, runEnd(s, p)) # 0 THEN p
    ELSE matchStart(s, p + 1)

\* The first alternative of operatorRegex that matches at position o.
firstOperator(s, o) ==
    Operators[CHOOSE k \in opsAt(s, o) : \A j \in opsAt(s, o) : k <= j]

\* (.+) on what follows the operator: \s* takes the spaces, and gives one
\* back when nothing else is left.
lastGroup(rest, cut) == IF cut = <<>> THEN SubSeq(rest, Len(rest), Len(rest)) ELSE cut

\* The submatches of operatorRegex for the column p..e and the operator at o.
submatches(condition, p, e, o, operator) ==
    [ok       |-> TRUE,
     column   |-> SubSeq(condition, p, e),
     operator |-> operator,
     value    |-> lastGroup(SubSeq(condition, o + Len(operator), Len(condition)),
                            TrimLeft(SubSeq(condition, o + Len(operator), Len(condition)),
                                     {" "}))]

\* operatorRegex matched from p, its column ending at e.
matchColumn(condition, p, e) ==
    submatches(condition, p, e, skipSpaces(condition, e + 1),
               firstOperator(condition, skipSpaces(condition, e + 1)))

\* operatorRegex matched from p (0: no match).
matchFrom(condition, p) ==
    IF p = 0 THEN [ok |-> FALSE, column |-> <<>>, operator |-> <<>>, value |-> <<>>]
    ELSE matchColumn(condition, p, columnEnd(condition, p, runEnd(condition, p)))

\* operatorRegex, (\w+)\s*(=|!=|<>|<=|>=|<|>|LIKE)\s*(.+), found anywhere in
\* the condition: the leftmost match, its alternatives tried in order.
operatorRegex(condition) == matchFrom(condition, matchStart(condition, 1))

\* The literal kept as the text it is.
parsedValue_textOnly(value) == StrVal(value)

\* (C12) a literal is tried as a float before it is tried as an integer
parsedValue_floatFirst(value) ==
    IF ParseFloat(value).ok THEN FloatVal(ParseFloat(value))
    ELSE IF ParseBool(value).ok THEN BoolVal(ParseBool(value).v)
    ELSE StrVal(value)

\* parseWhere's coercion of the literal: int, else float, else bool, else string.
parsedValue(value) ==
    IF Atoi(value).ok THEN IntVal(Atoi(value).v)
    ELSE IF ParseFloat(value).ok THEN FloatVal(ParseFloat(value))
    ELSE IF ParseBool(value).ok THEN BoolVal(ParseBool(value).v)
    ELSE StrVal(value)

\* (C19) the operator is kept as the condition spells it
operatorOf_asWritten(operator) == operator

\* The predicate's operator for the operator matched: <> becomes !=.
operatorOf(operator) == IF operator = OpLtGt THEN OpNe ELSE operator

RECURSIVE parseConditions(_, _)
\* One turn of parseWhere's loop: the condition's submatches give a
\* predicate, or end the loop with an error that names the condition.
addCondition(query0, condition, matches, conditions) ==
    IF ~matches.ok THEN [ok |-> FALSE, q |-> query0, condition |-> condition]
    ELSE parseConditions(
             Where(query0, matches.column,
                   operatorOf(matches.operator),
                   parsedValue(Trim(matches.value, {"'", "\""}))),
             conditions)

\* parseWhere's loop over the conditions, from the query built so far.
parseConditions(query0, conditions) ==
    IF conditions = <<>> THEN [ok |-> TRUE, q |-> query0, condition |-> <<>>]
    ELSE addCondition(query0, TrimSpace(Head(conditions)),
                      operatorRegex(TrimSpace(Head(conditions))), Tail(conditions))

\* SQLParser.parseWhere.
parseWhere(query0, whereClause) == parseConditions(query0, splitAnd(Fields(whereClause)))

\* The Query of the table with the WHERE clause the statement has.
filtered(table, where) ==
    IF where # <<>> THEN parseWhere(From(table), where)
    ELSE [ok |-> TRUE, q |-> From(table), condition |-> <<>>]

\* query.Limit(limit), if the statement has a LIMIT clause.
limited(query0, limit) ==
    IF limit # <<>> THEN Limit(query0, Atoi(limit).v) ELSE query0

\* query.Offset(offset), if the statement has an OFFSET clause.
shifted(query0, offset) ==
    IF offset # <<>> THEN Offset(query0, Atoi(offset).v) ELSE query0

\* parseSQL once the WHERE clause is parsed.
selected(matches, parsed) ==
    IF ~parsed.ok THEN [ok |-> FALSE, err |-> ErrParseWhere, q |-> From(<<>>)]
    ELSE [ok |-> TRUE, err |-> NoError, q |-> shifted(limited(parsed.q, matches.limit), matches.offset)]

\* parseSQL on the submatches of selectRegex.
parseMatches(matches) ==
    IF ~matches.ok THEN [ok |-> FALSE, err |-> ErrInvalidSQL, q |-> From(<<>>)]
    ELSE selected(matches, filtered(matches.table, matches.where))

\* SQLParser.parseSQL: the Query of a SELECT statement, or the error.
parseSQL(sql) == parseMatches(selectRegex(Fields(normalise(sql))))

\* insertRegex, (?i)^INSERT\s+INTO\s+(\w+): the table is the word characters
\* the third word starts with; what follows is not looked at.
insertRegex(words) ==
    IF /\ Len(words) >= 3
       /\ EqualFold(words[1], kINSERT)
       /\ EqualFold(words[2], kINTO)
       /\ IsWordChar(words[3][1])
    THEN [ok |-> TRUE, table |-> SubSeq(words[3], 1, runEnd(words[3], 1))]
    ELSE [ok |-> FALSE, table |-> <<>>]

\* The Query SQLParser.Insert inserts into.
insertQuery(sql) ==
    LET matches == insertRegex(Fields(normalise(sql)))
    IN  IF ~matches.ok THEN [ok |-> FALSE, err |-> ErrInvalidInsert, q |-> From(<<>>)]
        ELSE [ok |-> TRUE, err |-> NoError, q |-> From(matches.table)]

\* The word of updateRegex's (?:\s+WHERE\s+(.+?))?: the lazy .+? after SET
\* takes at least the fourth word and stops before the first WHERE that a
\* word follows (0 if there is none).
whereWord(words) ==
    LET wheres == {i \in 5..(Len(words) - 1) : EqualFold(words[i], kWHERE)}
    IN  IF wheres = {} THEN 0 ELSE CHOOSE i \in wheres : \A j \in wheres : i <= j

\* updateRegex, (?i)^UPDATE\s+(\w+)\s+SET\s+.+?(?:\s+WHERE\s+(.+?))?$.
updateRegex(words) ==
    IF /\ Len(words) >= 4
       /\ EqualFold(words[1], kUPDATE)
       /\ IsWord(words[2])
       /\ EqualFold(words[3], kSET)
    THEN [ok |-> TRUE, table |-> words[2],
          where |-> IF whereWord(words) = 0 THEN <<>>
                    ELSE Join(SubSeq(words, whereWord(words) + 1, Len(words)))]
    ELSE [ok |-> FALSE, table |-> <<>>, where |-> <<>>]

\* Update and Delete once the WHERE clause is parsed.
whereParsed(parsed) ==
    IF ~parsed.ok THEN [ok |-> FALSE, err |-> ErrParseWhere, q |-> From(<<>>)]
    ELSE [ok |-> TRUE, err |-> NoError, q |-> parsed.q]

\* (C16) a statement the regular expression does not match goes on to the
\* WHERE clause and the call
tableMatches_unchecked(matches, invalid) ==
    whereParsed(filtered(matches.table, matches.where))

\* Update and Delete on the submatches of their regular expression.
tableMatches(matches, invalid) ==
    IF ~matches.ok THEN [ok |-> FALSE, err |-> invalid, q |-> From(<<>>)]
    ELSE whereParsed(filtered(matches.table, matches.where))

\* The Query SQLParser.Update updates.
updateQuery(sql) == tableMatches(updateRegex(Fields(normalise(sql))), ErrInvalidUpdate)

\* deleteRegex, (?i)^DELETE\s+FROM\s+(\w+)(?:\s+WHERE\s+(.+?))?$.
deleteRegex(words) ==
    IF /\ Len(words) >= 3
       /\ EqualFold(words[1], kDELETE)
       /\ EqualFold(words[2], kFROM)
       /\ IsWord(words[3])
       /\ (Len(words) = 3 \/ (Len(words) >= 5 /\ EqualFold(words[4], kWHERE)))
    THEN [ok |-> TRUE, table |-> words[3],
          where |-> IF Len(words) = 3 THEN <<>> ELSE Join(SubSeq(words, 5, Len(words)))]
    ELSE [ok |-> FALSE, table |-> <<>>, where |-> <<>>]

\* The Query SQLParser.Delete deletes from.
deleteQuery(sql) == tableMatches(deleteRegex(Fields(normalise(sql))), ErrInvalidDelete)

-----------------------------------------------------------------------------
(* The evaluator on its own: specification SpecEval                        *)
(*                                                                         *)
(* compareValues and matchesWhere are applied once to arguments drawn from *)
(* the sets below; input holds the arguments, output the result.           *)

\* Length of the strings handed to compareValues.
MaxTextLen == 2

\* Clauses of a Query handed to matchesWhere.
MaxClauses == 2

\* Length of a LIKE value and of the cell it is looked for in.
MaxLikeLen == 3

\* The variables of the store and of the calls, which no evaluation touches.
NoStore ==
    /\ sheet = <<>>
    /\ sheet0 = <<>>
    /\ query = From(<<>>)
    /\ data = NoData
    /\ pc = "idle"
    /\ todo = <<>>
    /\ dest = <<>>
    /\ err = NoError
    /\ requests = <<>>
    /\ calls = 0

EvalChars == {"0", "1", "9", ".", "a"}

\* The strings compared: all short strings of digits, points and letters, and
\* some more numbers, signed numbers, letters and a not-a-number.
EvalTexts ==
    SeqsUpTo(EvalChars, MaxTextLen)
        \cup { <<"1", ".", "5", "0">>, <<"-", "1">>, <<"+", "1">>, <<"-", "1", "0">>, <<"N", "a", "N">>, <<"b">>, <<"B">> }

\* The operators compareValues is handed, and one it does not know.
EvalOperators == {OpGt, OpLt, OpGe, OpLe, OpEq}

sLike == <<"l", "i", "k", "e">>

sTilde == <<"~">>

\* The clauses of the Queries evaluated: on the columns Name and Age, on the
\* column City that no sheet has, with every operator of the switch and two
\* that it does not have, and with values of every type.
EvalClauseArgs ==
    { <<sName, OpEq, StrVal(sAnn)>>,
      <<sName, OpNe, StrVal(sAnn)>>,
      <<sName, OpEqEq, StrVal(sBob)>>,
      <<sName, OpLike, StrVal(<<"a", "N">>)>>,
      <<sName, sLike, StrVal(sBob)>>,
      <<sName, OpGt, StrVal(<<"B">>)>>,
      <<sAge, OpGt, IntVal(7)>>,
      <<sAge, OpLe, StrVal(<<"7", ".", "0">>)>>,
      <<sAge, OpLt, FloatVal(ParseFloat(<<"9", ".", "5">>))>>,
      <<sAge, OpGe, StrVal(<<"x">>)>>,
      <<sAge, sTilde, IntVal(7)>>,
      <<sCity, OpEq, StrVal(sAnn)>>,
      <<sCity, OpGt, IntVal(7)>> }

\* The Query after one Where call per element of args.
RECURSIVE whereChain(_, _)
whereChain(q, args) ==
    IF args = <<>> THEN q
    ELSE whereChain(Where(q, Head(args)[1], Head(args)[2], Head(args)[3]), Tail(args))

EvalWheres == {whereChain(From(sUsers), args).where : args \in SeqsUpTo(EvalClauseArgs, MaxClauses)}

\* The rows evaluated: full rows, a row that ends before the Age column, and
\* a row without cells.
EvalRows ==
    { << StrVal(sAnn), StrVal(<<"7">>) >>,
      << StrVal(sBob), StrVal(<<"1", "0">>) >>,
      << StrVal(<<"a", "n", "n">>), StrVal(<<"0", "7">>) >>,
      << StrVal(sAnn) >>,
      <<>> }

\* The headers: the two columns, and the Name column a second time after them.
EvalHeaders == { <<sName, sAge>>, <<sName, sAge, sName>> }

LikeChars == {"J", "o", "%"}

\* The values of LIKE conditions and the cells they are matched against.
LikeTexts ==
    SeqsUpTo(LikeChars, MaxLikeLen)
        \cup { <<"J", "O", "O">>, <<"j", "O", "%">>, <<"O">>, <<"_">>, <<"o", "_">>, <<"J", "o", "_">>, <<"J", "_", "%">> }

EvalInput(fn, a, b, op, where, row, headers) ==
    [fn |-> fn, a |-> a, b |-> b, op |-> op, where |-> where, row |-> row,
     headers |-> headers]

InitEval ==
    /\ NoStore
    /\ input = EvalInput("none", <<>>, <<>>, <<>>, <<>>, <<>>, <<>>)
    /\ output = FALSE

\* q.compareValues(a, b, operator).
EvalCompare ==
    /\ input.fn = "none"
    /\ \E a \in EvalTexts, b \in EvalTexts, op \in EvalOperators :
          /\ input' = EvalInput("compareValues", a, b, op, <<>>, <<>>, <<>>)
          /\ output' = compareValues(a, b, op)
    /\ UNCHANGED <<storeVars, query, data, callVars>>

\* q.matchesWhere(row, headers, fieldMap) as Get, Update and Delete call it,
\* fieldMap made from headers.
EvalMatch ==
    /\ input.fn = "none"
    /\ \E where \in EvalWheres, row \in EvalRows, headers \in EvalHeaders :
          /\ input' = EvalInput("matchesWhere", <<>>, <<>>, <<>>, where, row, headers)
          /\ output' = matchesWhere(where, row, FieldMap(headers))
    /\ UNCHANGED <<storeVars, query, data, callVars>>

\* The condition Name LIKE '<value>' as a statement spells it.
likeCondition(value) == sName \o <<" ", "L", "I", "K", "E", " ", "'">> \o value \o <<"'">>

\* parseWhere on a LIKE condition, then matchesWhere on a row whose Name cell
\* is the cell: a is the cell, b the value the condition spells.
EvalLike ==
    /\ input.fn = "none"
    /\ \E cell \in LikeTexts, value \in LikeTexts :
          LET parsed == parseWhere(From(sUsers), likeCondition(value))
          IN  /\ parsed.ok
              /\ input' = EvalInput("like", cell, value, <<>>, parsed.q.where,
                                    <<StrVal(cell)>>, <<sName>>)
              /\ output' = matchesWhere(parsed.q.where, <<StrVal(cell)>>,
                                        FieldMap(<<sName>>))
    /\ UNCHANGED <<storeVars, query, data, callVars>>

NextEval == EvalCompare \/ EvalMatch \/ EvalLike

SpecEval == InitEval /\ [][NextEval]_vars

-----------------------------------------------------------------------------
(* Claims on the evaluator                                                 *)

\* The clause is on a column that the header names and the row reaches.
ColumnInRow(clause, row, headers) ==
    \E c \in 1..Len(headers) :
        /\ headers[c] = clause.Column
        /\ \A d \in 1..Len(headers) : headers[d] = clause.Column => d <= c
        /\ c <= Len(row)

\* The cell of the row that the clause is about (its column is in the row).
CellOf(clause, row, headers) ==
    row[CHOOSE c \in 1..Len(headers) :
            /\ headers[c] = clause.Column
            /\ \A d \in 1..Len(headers) : headers[d] = clause.Column => d <= c]

\* The clauses of where that are on columns in the row, in their order.
ClausesInRow(where, row, headers) ==
    SelectSeq(where, LAMBDA clause : ColumnInRow(clause, row, headers))

\* C2: in matchesWhere a clause whose column the header does not name, or
\* whose column lies beyond the end of the row, never rejects the row: the
\* result is the result for the clauses that are left when every such clause
\* is removed, and a row that only such clauses are asked of matches.
C2_AbsentColumnIsVacuous ==
    input.fn = "matchesWhere" =>
        LET kept == ClausesInRow(input.where, input.row, input.headers)
        IN  /\ output = matchesWhere(kept, input.row, FieldMap(input.headers))
            /\ kept = <<>> => output = TRUE

\* A row matched although a clause on City (no such column) and a clause on
\* Age (beyond the end of the row) were asked of it.
C2_Witness ==
    /\ input.fn = "matchesWhere"
    /\ input.row = << StrVal(sAnn) >>
    /\ Len(input.where) = 2
    /\ input.where[1] = WhereClause(sCity, OpEq, StrVal(sAnn))
    /\ input.where[2] = WhereClause(sAge, OpGt, IntVal(7))
    /\ output = TRUE

KnownOperators == {OpEq, OpEqEq, OpNe, OpGt, OpLt, OpGe, OpLe, OpLike}

\* C3: a clause whose operator is not one of =, ==, !=, >, <, >=, <=, LIKE, on
\* a column that is in the row, makes matchesWhere return false for the row.
C3_UnknownOperatorNoMatch ==
    ( /\ input.fn = "matchesWhere"
      /\ \E i \in 1..Len(input.where) :
            /\ input.where[i].Operator \notin KnownOperators
            /\ ColumnInRow(input.where[i], input.row, input.headers) )
    => output = FALSE

\* A numeral: a sign or none, digits with at most one point among them and at
\* least one digit; or the spelling NaN.
IsNumeral(s) ==
    \/ s = <<"N", "a", "N">>
    \/ LET body == IF s # <<>> /\ s[1] \in {"+", "-"} THEN Tail(s) ELSE s
       IN  /\ \A i \in 1..Len(body) : body[i] \in {"0", "1", "2", "3", "4", "5", "6", "7", "8", "9", "."}
           /\ Cardinality({i \in 1..Len(body) : body[i] = "."}) <= 1
           /\ \E i \in 1..Len(body) : body[i] # "."

DigitOf(c) == CHOOSE d \in 0..9 : <<"0", "1", "2", "3", "4", "5", "6", "7", "8", "9">>[d + 1] = c

\* The number a numeral (not NaN) denotes, times 10^places: an integer when
\* places is at least the number of its decimals.
RECURSIVE Scaled(_, _)
Scaled(s, places) ==
    IF s = <<>> THEN 0
    ELSE IF s[1] = "-" THEN 0 - Scaled(Tail(s), places)
    ELSE IF s[1] = "+" THEN Scaled(Tail(s), places)
    ELSE LET point == {i \in 1..Len(s) : s[i] = "."}
             whole == IF point = {} THEN Len(s) ELSE (CHOOSE i \in point : TRUE) - 1
             digits == SelectSeq(s, LAMBDA c : c # ".")
             decimals == Len(digits) - whole
             value[i \in 0..Len(digits)] ==
                 IF i = 0 THEN 0 ELSE 10 * value[i - 1] + DigitOf(digits[i])
         IN  value[Len(digits)] * Pow10(places - decimals)

\* a before b in the order of strings: at the first position where they
\* differ a has the smaller character, or a ends there.
LexLess(a, b) ==
    \E i \in 1..(Len(b)) :
        /\ \A j \in 1..(i - 1) : j <= Len(a) /\ a[j] = b[j]
        /\ \/ i = Len(a) + 1
           \/ i <= Len(a) /\ Ord(a[i]) < Ord(b[i])

\* The number of digits after the point of a numeral.
Decimals(s) ==
    LET point == {i \in 1..Len(s) : s[i] = "."}
    IN  IF point = {} THEN 0 ELSE Len(s) - (CHOOSE i \in point : TRUE)

\* a op b for two numerals: by their numbers; nothing holds of a NaN.
NumberOrder(a, b, op) ==
    LET places == IF Decimals(a) > Decimals(b) THEN Decimals(a) ELSE Decimals(b)
        x == Scaled(a, places)
        y == Scaled(b, places)
    IN  IF a = <<"N", "a", "N">> \/ b = <<"N", "a", "N">> THEN FALSE
        ELSE CASE op = OpGt -> x > y
               [] op = OpLt -> x < y
               [] op = OpGe -> x >= y
               [] op = OpLe -> x <= y

\* a op b for two strings, by the order of strings.
TextOrder(a, b, op) ==
    CASE op = OpGt -> LexLess(b, a)
      [] op = OpLt -> LexLess(a, b)
      [] op = OpGe -> LexLess(b, a) \/ a = b
      [] op = OpLe -> LexLess(a, b) \/ a = b

\* What the claim says a op b is.
Ordered(a, b, op) ==
    IF IsNumeral(a) /\ IsNumeral(b) THEN NumberOrder(a, b, op) ELSE TextOrder(a, b, op)

\* C9: for >, <, >= and <= compareValues compares the numbers when both
\* strings are numerals and the strings otherwise, also when one of them is a
\* numeral; "9" > "10" is false and "b" > "a" is true. In matchesWhere the
\* strings are the texts of the cell and of the clause's value, whatever the
\* value's type.
C9_NumericElseText ==
    /\ (input.fn = "compareValues" /\ input.op \in {OpGt, OpLt, OpGe, OpLe})
           => output = Ordered(input.a, input.b, input.op)
    /\ (input.fn = "compareValues" /\ input.a = <<"9">> /\ input.b = <<"1", "0">> /\ input.op = OpGt)
           => output = FALSE
    /\ (input.fn = "compareValues" /\ input.a = <<"b">> /\ input.b = <<"a">> /\ input.op = OpGt)
           => output = TRUE
    /\ ( /\ input.fn = "matchesWhere"
         /\ Len(input.where) = 1
         /\ input.where[1].Operator \in {OpGt, OpLt, OpGe, OpLe}
         /\ ColumnInRow(input.where[1], input.row, input.headers) )
           => output = Ordered(CellOf(input.where[1], input.row, input.headers).s,
                               Sprint(input.where[1].Value),
                               input.where[1].Operator)

\* "9" > "10" was asked and answered false: the numbers were compared.
C9_Witness ==
    /\ input.fn = "compareValues"
    /\ input.a = <<"9">>
    /\ input.b = <<"1", "0">>
    /\ input.op = OpGt
    /\ output = FALSE

UpperCase == <<"A", "B", "C", "D", "E", "F", "G", "H", "I", "J", "K", "L", "M", "N", "O", "P", "Q", "R", "S", "T", "U", "V", "W", "X", "Y", "Z">>

LowerCase == <<"a", "b", "c", "d", "e", "f", "g", "h", "i", "j", "k", "l", "m", "n", "o", "p", "q", "r", "s", "t", "u", "v", "w", "x", "y", "z">>

\* The string with each capital letter replaced by its small letter.
Folded(s) ==
    [i \in 1..Len(s) |->
        IF \E n \in 1..26 : UpperCase[n] = s[i]
        THEN LowerCase[CHOOSE n \in 1..26 : UpperCase[n] = s[i]]
        ELSE s[i]]

\* part occurs in whole as a run of consecutive characters.
OccursIn(part, whole) ==
    \E at \in 0..(Len(whole) - Len(part)) :
        \A i \in 1..Len(part) : whole[at + i] = part[i]

\* C10: a LIKE clause is satisfied exactly when its value, in small letters,
\* occurs as a run of consecutive characters in the cell, in small letters;
\* % and _ stand for themselves. So it is for the clause parseWhere makes of
\* Name LIKE '<value>', whose value is the text between the quotes.
C10_LikeIsSubstring ==
    /\ input.fn = "like" =>
           /\ input.where = <<WhereClause(sName, OpLike, StrVal(input.b))>>
           /\ output = OccursIn(Folded(input.b), Folded(input.a))
    /\ ( /\ input.fn = "matchesWhere"
         /\ Len(input.where) = 1
         /\ input.where[1].Operator = OpLike
         /\ ColumnInRow(input.where[1], input.row, input.headers) )
           => output = OccursIn(Folded(Sprint(input.where[1].Value)),
                                Folded(CellOf(input.where[1], input.row, input.headers).s))

\* Name LIKE 'Jo%' was asked of the cell JOO, which holds jo but not jo%, and
\* did not match.
C10_Witness ==
    /\ input.fn = "like"
    /\ input.b = <<"J", "o", "%">>
    /\ input.a = <<"J", "O", "O">>
    /\ output = FALSE

-----------------------------------------------------------------------------
(* The record binder on its own: specification SpecBind                    *)
(*                                                                         *)
(* A fetched row is bound to a record with mapRowToStruct, and the record  *)
(* is written back: into the row Update builds over the fetched row, or    *)
(* into the row Insert builds. input holds the row, the header and the     *)
(* record type, output the record and the row built.                       *)

\* Cells of a fetched row.
MaxCells == 2

\* The texts of the cells.
BindTexts ==
    { <<>>, <<"7">>, <<"0", "0", "7">>, <<"+", "7">>, <<"-", "7">>, <<"-", "0">>, <<"1", ".", "5">>, <<"1", ".", "5", "0">>, <<".", "5">>,
      <<"t", "r", "u", "e">>, <<"T">>, <<"0">>, <<"A", "n", "n">>, <<"x">> }

BindRows == {[c \in 1..Len(texts) |-> StrVal(texts[c])] : texts \in SeqsUpTo(BindTexts, MaxCells)}

sNick == <<"N", "i", "c", "k">>

\* The record types: fields of every kind setFieldValue knows, bound by name
\* or by tag; two fields bound to one column; a field bound to no column.
BindTypes ==
    { << Field(sName, <<>>, "string"), Field(sYears, sAge, "int") >>,
      << Field(sName, <<>>, "float"), Field(sAge, <<>>, "bool") >>,
      << Field(sName, <<>>, "int"), Field(sAge, <<>>, "string"), Field(sYears, sAge, "int") >>,
      << Field(sName, <<>>, "bool"), Field(sAge, <<>>, "float"), Field(sCity, <<>>, "string") >>,
      << Field(sNick, sName, "int"), Field(sName, <<>>, "string") >> }

\* The headers: the two columns, in either order, and with Name a second time.
BindHeaders == { <<sName, sAge>>, <<sAge, sName>>, <<sName, sAge, sName>> }

BindInput(fn, row, headers, type) ==
    [fn |-> fn, row |-> row, headers |-> headers, type |-> type]

NoRecord == [ok |-> FALSE, elem |-> <<>>, row |-> <<>>]

InitBind ==
    /\ NoStore
    /\ input = BindInput("none", <<>>, <<>>, <<>>)
    /\ output = NoRecord

\* The record a row is bound to and the row a write then builds of it; a row
\* that cannot be bound leaves no record to write.
Bound(mapped, built(_)) ==
    IF mapped.ok THEN [ok |-> TRUE, elem |-> mapped.elem, row |-> built(mapped.elem)]
    ELSE NoRecord

\* Get binds the row, Update writes the record over the same row.
BindUpdate ==
    /\ input.fn = "none"
    /\ \E row \in BindRows, headers \in BindHeaders, type \in BindTypes :
          /\ input' = BindInput("Update", row, headers, type)
          /\ output' = Bound(mapRowToStruct(row, FieldMap(headers), type),
                             LAMBDA elem : updateRow(row, headers, FieldMap(headers),
                                                     type, elem))
    /\ UNCHANGED <<storeVars, query, data, callVars>>

\* Get binds the row, Insert writes the record as a new row.
BindInsert ==
    /\ input.fn = "none"
    /\ \E row \in BindRows, headers \in BindHeaders, type \in BindTypes :
          /\ input' = BindInput("Insert", row, headers, type)
          /\ output' = Bound(mapRowToStruct(row, FieldMap(headers), type),
                             LAMBDA elem : insertRow(headers, FieldMap(headers), type, elem))
    /\ UNCHANGED <<storeVars, query, data, callVars>>

\* Record types with a field of a kind setFieldValue has no arm for, bound
\* to a column of the header or to none, and with a field that is not
\* exported.
MapTypes ==
    BindTypes \cup
    { << Field(sName, <<>>, "string"), Field(sAge, <<>>, "uint") >>,
      << Field(sCity, <<>>, "slice"), Field(sYears, sAge, "struct"), Field(sName, <<>>, "int") >>,
      << Field(<<"n", "a", "m", "e">>, sName, "int"), Field(sAge, <<>>, "float") >>,
      << Field(<<"a", "g", "e">>, sAge, "uint"), Field(sName, <<>>, "bool") >> }

\* q.mapRowToStruct(row, headers, fieldMap, dest) on a new struct value.
BindRow ==
    /\ input.fn = "none"
    /\ \E row \in BindRows, headers \in BindHeaders, type \in MapTypes :
          /\ input' = BindInput("mapRowToStruct", row, headers, type)
          /\ output' = mapRowToStruct(row, FieldMap(headers), type)
    /\ UNCHANGED <<storeVars, query, data, callVars>>

NextBind == BindUpdate \/ BindInsert \/ BindRow

SpecBind == InitBind /\ [][NextBind]_vars

-----------------------------------------------------------------------------
(* Claims on the binder                                                    *)

\* The fields of the type bound to column c of the header (1-based): those
\* whose tag, or name when untagged, is the header's text, when c is the last
\* column with that text.
FieldsOn(c, headers, type) ==
    {i \in 1..Len(type) :
        /\ (IF type[i].Tag = <<>> THEN type[i].Name ELSE type[i].Tag) = headers[c]
        /\ \A d \in 1..Len(headers) : headers[d] = headers[c] => d <= c}

\* The columns of the row that some field is bound to.
BoundColumns(row, headers, type) ==
    {c \in 1..Len(headers) : c <= Len(row) /\ FieldsOn(c, headers, type) # {}}

RECURSIVE NoLeadingZeros(_)
NoLeadingZeros(digits) ==
    IF Len(digits) > 1 /\ digits[1] = "0" THEN NoLeadingZeros(Tail(digits)) ELSE digits

\* A text without its trailing zeros.
RECURSIVE NoTrailingZeros(_)
NoTrailingZeros(digits) ==
    IF digits # <<>> /\ digits[Len(digits)] = "0"
    THEN NoTrailingZeros(SubSeq(digits, 1, Len(digits) - 1))
    ELSE digits

\* The text of the number that the text of an integer denotes: no + sign, no
\* leading zeros, no sign on zero; 0 for the empty text.
IntText(text) ==
    LET signed == text # <<>> /\ text[1] \in {"+", "-"}
        digits == NoLeadingZeros(IF signed THEN Tail(text) ELSE text)
    IN  IF text = <<>> \/ digits = <<"0">> THEN <<"0">>
        ELSE IF text[1] = "-" THEN <<"-">> \o digits
        ELSE digits

\* The text of the number that a decimal text denotes: no + sign, no leading
\* zeros before the point (0 if nothing is left), no trailing zeros after it,
\* no point without decimals; 0 for the empty text.
FloatText(text) ==
    LET signed == text # <<>> /\ text[1] \in {"+", "-"}
        body   == IF signed THEN Tail(text) ELSE text
        point  == {i \in 1..Len(body) : body[i] = "."}
        at     == IF point = {} THEN Len(body) + 1 ELSE CHOOSE i \in point : TRUE
        whole  == NoLeadingZeros(IF at = 1 THEN <<"0">> ELSE SubSeq(body, 1, at - 1))
        frac   == NoTrailingZeros(SubSeq(body, at + 1, Len(body)))
    IN  IF text = <<>> THEN <<"0">>
        ELSE (IF text[1] = "-" THEN <<"-">> ELSE <<>>)
                 \o whole \o (IF frac = <<>> THEN <<>> ELSE <<".">> \o frac)

\* The text of the truth value that a text denotes; false for the empty text.
BoolText(text) ==
    IF text \in { <<"1">>, <<"t">>, <<"T">>, <<"T", "R", "U", "E">>, <<"t", "r", "u", "e">>, <<"T", "r", "u", "e">> }
    THEN <<"t", "r", "u", "e">>
    ELSE <<"f", "a", "l", "s", "e">>

\* The text a cell has after it was bound to a field of the kind and written.
TextAs(kind, text) ==
    CASE kind = "string" -> text
      [] kind = "int"    -> IntText(text)
      [] kind = "float"  -> FloatText(text)
      [] kind = "bool"   -> BoolText(text)

\* The row as it is fetched again: every cell its text.
Fetched(row) == [c \in 1..Len(row) |-> StrVal(Sprint(row[c]))]

-----------------------------------------------------------------------------
(* The SQL front end at work: specification SpecParse                      *)
(*                                                                         *)
(* output holds the statement the caller hands to the SQLParser, with the  *)
(* parts it was written from; the store and the calls are those of Spec.   *)

\* Conditions in the WHERE clause of a SELECT statement.
MaxConds == 2

sScore == <<"S", "c", "o", "r", "e">>

sActive == <<"A", "c", "t", "i", "v", "e">>

\* Conditions as a statement spells them, each with the arguments of the
\* Where call that says the same.
SelectConds ==
    { [text |-> <<"A", "g", "e", " ", ">", " ", "1", "8">>, args |-> <<sAge, OpGt, IntVal(18)>>],
      [text |-> <<"N", "a", "m", "e", " ", "=", " ", "'", "J", "o", "h", "n", "'">>, args |-> <<sName, OpEq, StrVal(<<"J", "o", "h", "n">>)>>],
      [text |-> <<"A", "g", "e", "<", ">", "7">>, args |-> <<sAge, OpNe, IntVal(7)>>],
      [text |-> <<"S", "c", "o", "r", "e", " ", ">", "=", " ", "3", ".", "5", "0">>, args |-> <<sScore, OpGe, FloatVal(Normalise(FALSE, 35, 1))>>],
      [text |-> <<"A", "c", "t", "i", "v", "e", " ", "=", " ", "t", "r", "u", "e">>, args |-> <<sActive, OpEq, BoolVal(TRUE)>>],
      [text |-> <<"N", "a", "m", "e", " ", "L", "I", "K", "E", " ", "\"", "J", "o", "%", "\"">>, args |-> <<sName, OpLike, StrVal(<<"J", "o", "%">>)>>],
      [text |-> <<"C", "i", "t", "y", " ", "!", "=", " ", "'", "N", "e", "w", " ", "Y", "o", "r", "k", "'">>, args |-> <<sCity, OpNe, StrVal(<<"N", "e", "w", " ", "Y", "o", "r", "k">>)>>] }

\* A keyword in capitals, in small letters, or with capitals and small
\* letters in turn.
Keyword(word, case) ==
    IF case = "lower" THEN ToLower(word)
    ELSE IF case = "mixed" THEN [i \in 1..Len(word) |-> IF i % 2 = 0 THEN ToLower(<<word[i]>>)[1] ELSE word[i]]
    ELSE word

\* The texts joined by the gap.
RECURSIVE Spaced(_, _)
Spaced(texts, gap) ==
    IF texts = <<>> THEN <<>>
    ELSE IF Len(texts) = 1 THEN texts[1]
    ELSE texts[1] \o gap \o Spaced(Tail(texts), gap)

\* The words of a WHERE clause: the conditions with AND between them.
RECURSIVE WhereWords(_, _)
WhereWords(conds, case) ==
    IF Len(conds) = 1 THEN <<conds[1].text>>
    ELSE <<conds[1].text, Keyword(kAND, case)>> \o WhereWords(Tail(conds), case)

\* A statement and the parts it was written from.
Statement(kind, sql, table, where, conds, limit, offset) ==
    [kind |-> kind, sql |-> sql, table |-> table, where |-> where, conds |-> conds,
     limit |-> limit, offset |-> offset]

\* SELECT <cols> FROM <table> [WHERE c1 AND ... cn] [LIMIT l] [OFFSET o];
\* limit and offset are -1 for a clause that is not written.
SelectStatement(cols, table, conds, limit, offset, case, gap) ==
    Statement("SELECT",
        Spaced(<<Keyword(kSELECT, case), cols, Keyword(kFROM, case), table>>
                   \o (IF conds = <<>> THEN <<>>
                       ELSE <<Keyword(kWHERE, case)>> \o WhereWords(conds, case))
                   \o (IF limit < 0 THEN <<>>
                       ELSE <<Keyword(kLIMIT, case), NatDigits(limit)>>)
                   \o (IF offset < 0 THEN <<>>
                       ELSE <<Keyword(kOFFSET, case), NatDigits(offset)>>),
               gap),
        table, <<>>, conds, limit, offset)

SelectStatements ==
    { SelectStatement(cols, table, conds, limit, offset, case, gap) :
        cols \in { <<"*">>, <<"N", "a", "m", "e", ",", " ", "A", "g", "e">> },
        table \in { sUsers, <<"u", "s", "e", "r", "s", "_", "1">> },
        conds \in SeqsUpTo(SelectConds, MaxConds),
        limit \in {-1, 0, 10},
        offset \in {-1, 5},
        case \in {"upper", "lower", "mixed"},
        gap \in { <<" ">>, <<" ", " ">> } }

\* Statements that are no SELECT statement of the front end.
BrokenSelects ==
    { Statement("SELECT", sql, <<>>, <<>>, <<>>, -1, -1) :
        sql \in { <<"S", "E", "L", "E", "C", "T", " ", "F", "R", "O", "M", " ", "U", "s", "e", "r", "s">>,
                  <<"S", "E", "L", "E", "C", " ", "*", " ", "F", "R", "O", "M", " ", "U", "s", "e", "r", "s">>,
                  <<"S", "E", "L", "E", "C", "T", " ", "*", " ", "F", "R", "O", "M", " ", "U", "s", "e", "r", "s", " ", "L", "I", "M", "I", "T", " ", "a", "b", "c">>,
                  <<"S", "E", "L", "E", "C", "T", " ", "*", " ", "F", "R", "O", "M", " ", "U", "s", "e", "r", "s", " ", "W", "H", "E", "R", "E", " ", "N", "a", "m", "e">> } }

\* SELECT statements whose LIMIT or OFFSET is no number, with and without a
\* WHERE clause before it.
PageTexts == { <<"L", "I", "M", "I", "T", " ", "a", "b", "c">>, <<"L", "I", "M", "I", "T", " ", "-", "1">>, <<"L", "I", "M", "I", "T", " ", "1", ".", "5">>, <<"O", "F", "F", "S", "E", "T", " ", "a", "b", "c">>, <<"O", "F", "F", "S", "E", "T", " ", "5", "x">>,
               <<"L", "I", "M", "I", "T", " ", "1", "0", " ", "O", "F", "F", "S", "E", "T", " ", "a", "b", "c">>, <<"L", "I", "M", "I", "T", " ", "x", " ", "O", "F", "F", "S", "E", "T", " ", "5">> }

UnpagedSelects ==
    { Statement("SELECT", <<"S", "E", "L", "E", "C", "T", " ", "*", " ", "F", "R", "O", "M", " ", "U", "s", "e", "r", "s">> \o where \o <<" ">> \o page,
                <<>>, <<>>, <<>>, -1, -1) :
        where \in { <<>>, <<" ", "W", "H", "E", "R", "E", " ", "A", "g", "e", " ", ">", " ", "1", "8">>, <<" ", "W", "H", "E", "R", "E", " ", "N", "a", "m", "e", " ", "=", " ", "'", "J", "o", "h", "n", "'", " ", "A", "N", "D", " ", "A", "g", "e", " ", ">", " ", "1", "8">> },
        page \in PageTexts }

\* UPDATE <table> SET <set> [WHERE <where>].
UpdateText(table, set, where) ==
    <<"U", "P", "D", "A", "T", "E", " ">> \o table \o <<" ", "S", "E", "T", " ">> \o set
        \o (IF where = <<>> THEN <<>> ELSE <<" ", "W", "H", "E", "R", "E", " ">> \o where)

\* The assignment lists of the UPDATE statements.
SetLists ==
    { <<"A", "g", "e", " ", "=", " ", "5">>,
      <<"A", "g", "e", " ", "=", " ", "6", ",", " ", "N", "a", "m", "e", " ", "=", " ", "'", "Z", "'">>,
      <<"N", "i", "c", "k", " ", "=", " ", "'", "x", " ", "W", "H", "E", "R", "E", " ", "A", "g", "e", " ", ">", " ", "0", "'">>,
      <<"N", "i", "c", "k", " ", "=", " ", "'", "x", " ", "W", "H", "E", "R", "E", " ", "y", "'">> }

UpdateStatements ==
    { Statement("UPDATE", UpdateText(sUsers, set, where), sUsers, where, <<>>, -1, -1) :
        set \in SetLists,
        where \in { <<>>, <<"N", "a", "m", "e", " ", "=", " ", "'", "B", "o", "b", "'">>, <<"A", "g", "e", " ", ">", " ", "7">> } }

\* INSERT INTO <table><rest>.
InsertText(table, rest) == <<"I", "N", "S", "E", "R", "T", " ", "I", "N", "T", "O", " ">> \o table \o rest

InsertStatements ==
    { Statement("INSERT", InsertText(sUsers, rest), sUsers, <<>>, <<>>, -1, -1) :
        rest \in { <<>>, <<"(", "N", "a", "m", "e", ",", " ", "A", "g", "e", ")", " ", "V", "A", "L", "U", "E", "S", " ", "(", "'", "x", "'", ",", " ", "1", ")">>, <<" ", "V", "A", "L", "U", "E", "S", " ", "(", "'", "B", "o", "b", "'", ",", " ", "9", ")">>,
                   <<" ", "(", "A", "g", "e", ")", " ", "V", "A", "L", "U", "E", "S", " ", "(", "0", ")">> } }

\* DELETE FROM <table> [WHERE <where>].
DeleteText(table, where) ==
    <<"D", "E", "L", "E", "T", "E", " ", "F", "R", "O", "M", " ">> \o table \o (IF where = <<>> THEN <<>> ELSE <<" ", "W", "H", "E", "R", "E", " ">> \o where)

DeleteStatements ==
    { Statement("DELETE", DeleteText(sUsers, where), sUsers, where, <<>>, -1, -1) :
        where \in { <<>>, <<"N", "a", "m", "e", " ", "=", " ", "'", "B", "o", "b", "'">>, <<"A", "g", "e", " ", ">", " ", "7">> } }

\* Texts that are a statement of no operation, and for each operation texts
\* that are no statement of it: a keyword is missing or misplaced, the table
\* is no word, or the statement is one of another operation.
NoStatements == { <<"I", "N", "V", "A", "L", "I", "D", " ", "S", "Q", "L">>, <<>>, <<" ", " ", "i", "n", "v", "a", "l", "i", "d", " ", " ", " ", "s", "q", "l", " ">> }

InvalidTexts(kind) ==
    NoStatements \cup
    CASE kind = "SELECT" -> { <<"S", "E", "L", "E", "C", "T", " ", "*", " ", "F", "R", "O", "M", " ", "m", "y", "-", "t", "a", "b", "l", "e">>, <<"S", "E", "L", "E", "C", "T", " ", "*", " ", "U", "s", "e", "r", "s">>, <<"D", "E", "L", "E", "T", "E", " ", "F", "R", "O", "M", " ", "U", "s", "e", "r", "s">>,
                              <<"S", "E", "L", "E", "C", "T", " ", "*", " ", "F", "R", "O", "M", " ", "U", "s", "e", "r", "s", " ", "A", "g", "e", " ", ">", " ", "1", "8">> }
      [] kind = "INSERT" -> { <<"I", "N", "S", "E", "R", "T", " ", "U", "s", "e", "r", "s">>, <<"I", "N", "S", "E", "R", "T", " ", "I", "N", "T", "O">>, <<"I", "N", "T", "O", " ", "U", "s", "e", "r", "s">>, <<"S", "E", "L", "E", "C", "T", " ", "*", " ", "F", "R", "O", "M", " ", "U", "s", "e", "r", "s">>,
                              <<"I", "N", "S", "E", "R", "T", " ", "I", "N", "T", "O", " ", "(", "U", "s", "e", "r", "s", ")">> }
      [] kind = "UPDATE" -> { <<"U", "P", "D", "A", "T", "E", " ", "U", "s", "e", "r", "s">>, <<"U", "P", "D", "A", "T", "E", " ", "U", "s", "e", "r", "s", " ", "S", "E", "T">>, <<"U", "P", "D", "A", "T", "E", " ", "S", "E", "T", " ", "A", "g", "e", " ", "=", " ", "5">>,
                              <<"U", "P", "D", "A", "T", "E", " ", "m", "y", "-", "t", "a", "b", "l", "e", " ", "S", "E", "T", " ", "A", "g", "e", " ", "=", " ", "5">>, <<"D", "E", "L", "E", "T", "E", " ", "F", "R", "O", "M", " ", "U", "s", "e", "r", "s">> }
      [] kind = "DELETE" -> { <<"D", "E", "L", "E", "T", "E", " ", "U", "s", "e", "r", "s">>, <<"D", "E", "L", "E", "T", "E", " ", "F", "R", "O", "M", " ", "m", "y", "-", "t", "a", "b", "l", "e">>, <<"D", "E", "L", "E", "T", "E", " ", "F", "R", "O", "M", " ", "U", "s", "e", "r", "s", " ", "W", "H", "E", "R", "E">>,
                              <<"D", "E", "L", "E", "T", "E", " ", "F", "R", "O", "M", " ", "U", "s", "e", "r", "s", " ", "S", "E", "T", " ", "A", "g", "e", " ", "=", " ", "5">>, <<"U", "P", "D", "A", "T", "E", " ", "U", "s", "e", "r", "s", " ", "S", "E", "T", " ", "A", "g", "e", " ", "=", " ", "5">> }

Operations == {"SELECT", "INSERT", "UPDATE", "DELETE"}

InvalidStatements ==
    UNION { { Statement(kind, sql, <<>>, <<>>, <<>>, -1, -1) : sql \in InvalidTexts(kind) } :
              kind \in Operations }

\* The destinations a call is handed: an empty slice, or one that holds an
\* element of an earlier call.
ParseDests == { <<>>, << << StrVal(sCy), IntVal(5) >> >> }

\* The sheets the statements are run against.
ParseSheets ==
    { << UserHeader, << StrVal(sAnn), StrVal(<<"7">>) >>, << StrVal(sBob), StrVal(<<"9">>) >> >>,
      << UserHeader, << StrVal(sBob), StrVal(<<"9">>) >>, << StrVal(sBob), StrVal(<<"7">>) >> >>,
      << UserHeader >> }

InitParse ==
    /\ \/ /\ output \in SelectStatements \cup BrokenSelects \cup UnpagedSelects
          /\ sheet = <<UserHeader>>
          /\ dest = <<>>
       \/ /\ output \in UpdateStatements \cup InsertStatements \cup DeleteStatements
          /\ sheet \in ParseSheets
          /\ dest = <<>>
       \/ /\ output \in InvalidStatements
          /\ sheet \in ParseSheets
          /\ dest \in ParseDests
    /\ sheet0 = Sheet0Rows
    /\ query = From(<<>>)
    /\ data = NoData
    /\ pc = "idle"
    /\ todo = <<>>
    /\ err = NoError
    /\ requests = <<>>
    /\ calls = 0
    /\ input = NoCall

\* The call ends on the statement: no Query, no request to the store.
Rejected(fn, error) ==
    /\ pc = "idle"
    /\ calls < MaxCalls
    /\ calls' = calls + 1
    /\ err' = error
    /\ requests' = <<>>
    /\ input' = Began(fn, <<>>)

\* parseSQL has ended: with the Query, or with the error.
Parsed(parsed) ==
    /\ pc = "idle"
    /\ calls < MaxCalls
    /\ calls' = calls + 1
    /\ query' = IF parsed.ok THEN parsed.q ELSE query
    /\ err' = parsed.err
    /\ requests' = <<>>
    /\ input' = Began("parseSQL", <<>>)
    /\ UNCHANGED <<storeVars, data, pc, todo, dest, output>>

\* p.parseSQL(sql): the Query of the statement, or the error.
ParseSelect ==
    /\ output.kind = "SELECT"
    /\ Parsed(parseSQL(output.sql))

\* SQLParser.Update after the statement is parsed: q.Update(d), or the error.
UpdateParsed(parsed) ==
    IF parsed.ok THEN \E d \in SpecData : UpdateOf(parsed.q, d)
    ELSE /\ Rejected("Update", parsed.err)
         /\ UNCHANGED <<storeVars, query, data, pc, todo, dest, output>>

\* p.Update(sql, d): the Query of the statement, then q.Update(d).
SqlUpdate ==
    /\ pc = "idle" /\ calls < MaxCalls
    /\ output.kind = "UPDATE"
    /\ UpdateParsed(updateQuery(output.sql))

\* SQLParser.Insert after the statement is parsed: q.Insert(d), or the error.
InsertParsed(parsed) ==
    IF parsed.ok THEN \E d \in SpecData : InsertOf(parsed.q, d)
    ELSE /\ Rejected("Insert", parsed.err)
         /\ UNCHANGED <<storeVars, query, data, pc, todo, dest, output>>

\* p.Insert(sql, d): the Query of the statement, then q.Insert(d).
SqlInsert ==
    /\ pc = "idle" /\ calls < MaxCalls
    /\ output.kind = "INSERT"
    /\ InsertParsed(insertQuery(output.sql))

\* The error of SQLParser.Query for the error of parseSQL.
failedToParse(error) == IF error = ErrInvalidSQL THEN ErrParseSQL ELSE ErrParseSQLWhere

\* SQLParser.Query after the statement is parsed: q.Get(dest), or the error.
QueryParsed(parsed) ==
    IF parsed.ok THEN GetOf(parsed.q)
    ELSE /\ Rejected("Query", failedToParse(parsed.err))
         /\ UNCHANGED <<storeVars, query, data, pc, todo, dest, output>>

\* p.Query(sql, &dest): the Query of the statement, then q.Get(&dest).
SqlQuery ==
    /\ pc = "idle" /\ calls < MaxCalls
    /\ output.kind = "SELECT"
    /\ QueryParsed(parseSQL(output.sql))

\* SQLParser.Delete after the statement is parsed: q.Delete(), or the error.
DeleteParsed(parsed) ==
    IF parsed.ok THEN DeleteOf(parsed.q)
    ELSE /\ Rejected("Delete", parsed.err)
         /\ UNCHANGED <<storeVars, query, data, pc, todo, dest, output>>

\* p.Delete(sql): the Query of the statement, then q.Delete().
SqlDelete ==
    /\ pc = "idle" /\ calls < MaxCalls
    /\ output.kind = "DELETE"
    /\ DeleteParsed(deleteQuery(output.sql))

NextParse ==
    \/ ParseSelect
    \/ SqlQuery
    \/ SqlInsert
    \/ SqlUpdate
    \/ UpdateWrite
    \/ SqlDelete
    \/ DeleteWrite

SpecParse == InitParse /\ [][NextParse]_vars

-----------------------------------------------------------------------------
(* Claims on the SQL front end                                             *)

\* The assignment list and the rest of an INSERT that the statements of one
\* table and WHERE clause are compared with.
PlainSet == <<"A", "g", "e", " ", "=", " ", "5">>

PlainRest == <<>>

\* What Update does once the read has answered with values: the error it
\* ends with, or the rows it sets out to write.
UpdateBegins(q, values, d) ==
    IF Len(values) = 0 THEN [err |-> ErrNoData, todo |-> <<>>]
    ELSE IF SelectedRows(q, values) = {} THEN [err |-> ErrNoRowsMatched, todo |-> <<>>]
    ELSE [err |-> Running, todo |-> updatePlan(q, values, UserType, d)]

\* C7: what SQLParser.Update and SQLParser.Insert write depends on the table,
\* the WHERE clause and the record only: an UPDATE does what the UPDATE of
\* the same table and WHERE clause with another assignment list does, an
\* INSERT what the INSERT into the same table with nothing after the table
\* name does.
C7_WritesIgnoreSqlLiterals ==
    /\ (output.kind = "UPDATE" /\ input.fn = "Update" /\ calls = 1 /\ Len(requests) <= 1) =>
           LET plain == updateQuery(UpdateText(output.table, PlainSet, output.where))
           IN  IF ~plain.ok THEN requests = <<>> /\ err = plain.err
               ELSE /\ Len(requests) = 1
                    /\ query.sheetName = plain.q.sheetName
                    /\ requests[1].ok =>
                           [err |-> err, todo |-> todo]
                               = UpdateBegins(plain.q, input.values, data)
    /\ (output.kind = "INSERT" /\ input.fn = "Insert" /\ calls = 1) =>
           LET plain == insertQuery(InsertText(output.table, PlainRest))
           IN  /\ plain.ok
               /\ Len(requests) >= 1
               /\ query = plain.q
               /\ Len(requests) = 2 =>
                      requests[2].row = insertRow(Headers(input.values),
                                                  FieldMap(Headers(input.values)),
                                                  UserType, data)

\* The Query the builder makes of the parts of a SELECT statement.
Built(statement) ==
    LET where  == whereChain(From(statement.table),
                             [i \in 1..Len(statement.conds) |-> statement.conds[i].args])
        limit  == IF statement.limit < 0 THEN where ELSE Limit(where, statement.limit)
    IN  IF statement.offset < 0 THEN limit ELSE Offset(limit, statement.offset)

\* C8: parseSQL makes of a SELECT statement with table T, conditions c1..cn
\* joined by AND, LIMIT l and OFFSET o the Query that From(T), one Where per
\* condition in the order of the text, Limit(l) and Offset(o) make: limit and
\* offset 0 for a clause that is not written, whatever the column list, the
\* case of the keywords and the white space are. Every such statement is
\* accepted.
C8_ParseIsBuilderChain ==
    (output.kind = "SELECT" /\ input.fn = "parseSQL" /\ output.table # <<>>) =>
        /\ err = NoError
        /\ query = Built(output)
        /\ output.limit < 0 => query.limit = 0
        /\ output.offset < 0 => query.offset = 0

\* SELECT * FROM Users WHERE Age > 18 AND Name = 'John' was parsed to the two
\* predicates (Age, >, Integer 18) and (Name, =, String John).
C8_Witness ==
    /\ input.fn = "parseSQL"
    /\ output.sql = <<"S", "E", "L", "E", "C", "T", " ", "*", " ", "F", "R", "O", "M", " ", "U", "s", "e", "r", "s", " ", "W", "H", "E", "R", "E", " ", "A", "g", "e", " ", ">", " ", "1", "8", " ", "A", "N", "D", " ", "N", "a", "m", "e", " ", "=", " ", "'", "J", "o", "h", "n", "'">>
    /\ err = NoError
    /\ query = Where(Where(From(sUsers), sAge, OpGt, IntVal(18)), sName, OpEq,
                     StrVal(<<"J", "o", "h", "n">>))

-----------------------------------------------------------------------------
(* Claims on the evaluator: the clauses together                           *)

\* What one clause asks of a row, said apart from matchesWhere: nothing when
\* its column is not in the row or its operator has no arm of the switch,
\* else the comparison of the cell's text with the value's text.
Passes(clause, row, headers) ==
    IF ~ColumnInRow(clause, row, headers) THEN TRUE
    ELSE LET cell  == CellOf(clause, row, headers).s
             value == Sprint(clause.Value)
         IN  CASE clause.Operator \in {OpEq, OpEqEq} -> cell = value
               [] clause.Operator = OpNe -> cell # value
               [] clause.Operator \in {OpGt, OpLt, OpGe, OpLe} ->
                      Ordered(cell, value, clause.Operator)
               [] clause.Operator = OpLike -> OccursIn(Folded(value), Folded(cell))
               [] OTHER -> TRUE

\* The clause lists that hold the clauses of where in some order.
Permuted(where) ==
    { [i \in 1..Len(where) |-> where[p[i]]] :
        p \in {f \in [1..Len(where) -> 1..Len(where)] :
                  \A i, j \in 1..Len(where) : f[i] = f[j] => i = j} }

\* C11: matchesWhere is the conjunction of its clauses: the row matches
\* exactly when each clause passes, a row matches the empty list, and the
\* result is the same for the clauses in any order.
C11_MatchIsConjunction ==
    input.fn = "matchesWhere" =>
        /\ output = (\A i \in 1..Len(input.where) :
                         Passes(input.where[i], input.row, input.headers))
        /\ \A where \in Permuted(input.where) :
               matchesWhere(where, input.row, FieldMap(input.headers)) = output
        /\ input.where = <<>> => output = TRUE

\* Name = Ann passed and Age > 7 failed for the row (Ann, 7): no match.
C11_Witness ==
    /\ input.fn = "matchesWhere"
    /\ input.row = << StrVal(sAnn), StrVal(<<"7">>) >>
    /\ input.headers = <<sName, sAge>>
    /\ input.where = << WhereClause(sName, OpEq, StrVal(sAnn)),
                        WhereClause(sAge, OpGt, IntVal(7)) >>
    /\ output = FALSE

-----------------------------------------------------------------------------
(* The WHERE clause on its own: specification SpecWhere                    *)
(*                                                                         *)
(* parseWhere is applied once: to one condition written from its parts,    *)
(* whose Query is then asked of a row with one cell; or to a clause of     *)
(* several conditions, alone and inside a SELECT statement. input holds    *)
(* the text and its parts, output the result.                              *)

\* Conditions in a WHERE clause handed to parseWhere.
MaxWhereConds == 2

sLikeTitle == <<"L", "i", "k", "e">>

\* The operator as the condition spells it: the alternatives of
\* operatorRegex, and LIKE in small letters and with a capital.
WhereOperators == {OpEq, OpNe, OpLtGt, OpLe, OpGe, OpLt, OpGt, OpLike, sLike, sLikeTitle}

\* The literal between the quotes, or without quotes.
WhereLiterals ==
    { <<"1", "8">>, <<"1", "9", ".", "9", "9">>, <<"t", "r", "u", "e">>, <<"N", "e", "w", " ", "Y", "o", "r", "k">>, <<"J", "o", "h", "n">>, <<"2", "5">>, <<"2", "5", ".", "0">>, <<"+", "5">>, <<"-", "3">>,
      <<"0", "0", "7">>, <<"1", ".", "5", "0">>, <<".", "5">>, <<"T">>, <<"F", "a", "l", "s", "e">>, <<"N", "a", "N">>, <<"a", "b", "c">>, <<"J", "o">>, <<"1", ".", "2", ".", "3">> }

\* What stands before and after the literal: nothing, one layer of quotes,
\* two layers.
WhereQuotes ==
    { << <<>>, <<>> >>,
      << <<"'">>, <<"'">> >>,
      << <<"\"">>, <<"\"">> >>,
      << <<"'", "'">>, <<"'", "'">> >>,
      << <<"\"", "'">>, <<"'", "\"">> >> }

\* What stands between column, operator and value.
WhereGaps == { <<>>, <<" ">> }

\* The cell of the row the parsed condition is asked of.
WhereCells == { <<"2", "5">>, <<"2", "5", ".", "0">>, <<"J", "o">>, <<"J", "O", "H", "N">>, <<"1", "8">>, <<>>, <<"0", "0", "7">>, <<"T">> }

\* Conditions of a clause, each marked: it is, as a whole, a column of one
\* word, an operator and a value; or it is not.
WhereShapes ==
    { [text |-> <<"A", "g", "e", " ", ">", " ", "1", "8">>, shaped |-> TRUE],
      [text |-> <<"N", "a", "m", "e", " ", "=", " ", "'", "J", "o", "h", "n", "'">>, shaped |-> TRUE],
      [text |-> <<"f", "i", "r", "s", "t", " ", "n", "a", "m", "e", " ", "=", " ", "'", "x", "'">>, shaped |-> FALSE],
      [text |-> <<"(", "A", "g", "e", " ", ">", " ", "1", "8">>, shaped |-> FALSE],
      [text |-> <<"A", "g", "e", " ", ">">>, shaped |-> FALSE],
      [text |-> <<"A", "g", "e", " ", ">", "=">>, shaped |-> FALSE],
      [text |-> <<"A", "g", "e", " ", "1", "8">>, shaped |-> FALSE],
      [text |-> <<"N", "a", "m", "e">>, shaped |-> FALSE] }

WhereInput(fn, text, column, operator, literal, quote, cell, conds) ==
    [fn |-> fn, text |-> text, column |-> column, operator |-> operator,
     literal |-> literal, quote |-> quote, cell |-> cell, conds |-> conds]

InitWhere ==
    /\ NoStore
    /\ input = WhereInput("none", <<>>, <<>>, <<>>, <<>>, << <<>>, <<>> >>, <<>>, <<>>)
    /\ output = [ok |-> FALSE, q |-> From(<<>>), condition |-> <<>>, matched |-> FALSE]

\* The condition as the statement spells it.
conditionText(column, gap, operator, quote, literal) ==
    column \o gap \o operator \o gap \o quote[1] \o literal \o quote[2]

\* What parseWhere made of the condition, and whether the row whose only
\* cell is under the column matches the Query.
asked(parsed, column, cell) ==
    [ok |-> parsed.ok, q |-> parsed.q, condition |-> parsed.condition,
     matched |-> parsed.ok /\ matchesWhere(parsed.q.where, <<StrVal(cell)>>,
                                            FieldMap(<<column>>))]

\* p.parseWhere(query, condition), then query.matchesWhere on a row.
WhereCondition ==
    /\ input.fn = "none"
    /\ \E column \in {sName, sAge}, gap \in WhereGaps, operator \in WhereOperators,
          quote \in WhereQuotes, literal \in WhereLiterals, cell \in WhereCells :
          /\ input' = WhereInput("condition",
                                 conditionText(column, gap, operator, quote, literal),
                                 column, operator, literal, quote, cell, <<>>)
          /\ output' = asked(parseWhere(From(sUsers),
                                        conditionText(column, gap, operator, quote, literal)),
                             column, cell)
    /\ UNCHANGED <<storeVars, query, data, callVars>>

\* The conditions joined by AND.
clauseText(conds) == Spaced([i \in 1..Len(conds) |-> conds[i].text], <<" ", "A", "N", "D", " ">>)

\* p.parseWhere(query, clause), and p.parseSQL on the SELECT statement that
\* has the clause.
WhereConditions ==
    /\ input.fn = "none"
    /\ \E conds \in SeqsUpTo(WhereShapes, MaxWhereConds) \ {<<>>} :
          /\ input' = WhereInput("clause", clauseText(conds), <<>>, <<>>, <<>>,
                                 << <<>>, <<>> >>, <<>>, conds)
          /\ output' = [where |-> parseWhere(From(sUsers), clauseText(conds)),
                        sql   |-> parseSQL(<<"S", "E", "L", "E", "C", "T", " ", "*", " ", "F", "R", "O", "M", " ", "U", "s", "e", "r", "s", " ", "W", "H", "E", "R", "E", " ">>
                                               \o clauseText(conds))]
    /\ UNCHANGED <<storeVars, query, data, callVars>>

NextWhere == WhereCondition \/ WhereConditions

SpecWhere == InitWhere /\ [][NextWhere]_vars

-----------------------------------------------------------------------------
(* Claims on the WHERE clause                                              *)

\* The operators as operatorRegex spells them.
SpelledOperators == {Operators[k] : k \in 1..Len(Operators)}

\* The literal stands without quotes or in one layer of quotes.
OneLayer == Len(input.quote[1]) <= 1

\* An integer in text: a sign or none, then digits.
IsInteger(s) ==
    LET body == IF s # <<>> /\ s[1] \in {"+", "-"} THEN Tail(s) ELSE s
    IN  /\ body # <<>>
        /\ \A i \in 1..Len(body) : body[i] \in {"0", "1", "2", "3", "4", "5", "6", "7", "8", "9"}

\* A truth value in text.
IsTruth(s) ==
    s \in { <<"1">>, <<"t">>, <<"T">>, <<"T", "R", "U", "E">>, <<"t", "r", "u", "e">>, <<"T", "r", "u", "e">>,
            <<"0">>, <<"f">>, <<"F">>, <<"F", "A", "L", "S", "E">>, <<"f", "a", "l", "s", "e">>, <<"F", "a", "l", "s", "e">> }

\* The type the claim gives the literal: the first of integer, float and
\* boolean that it is the text of, else string.
KindOf(literal) ==
    IF IsInteger(literal) THEN "int"
    ELSE IF IsNumeral(literal) THEN "float"
    ELSE IF IsTruth(literal) THEN "bool"
    ELSE "string"

\* C12: the value of a parsed condition has the first type of integer,
\* float, boolean that its literal is the text of, and is a string with the
\* literal's text otherwise; the condition is never refused for its literal.
\* "18" is an integer, "19.99" a float, "true" a boolean, "New York" a string.
C12_CoercionPrecedence ==
    (input.fn = "condition" /\ input.operator \in SpelledOperators /\ OneLayer) =>
        /\ output.ok
        /\ Len(output.q.where) = 1
        /\ LET value == output.q.where[1].Value
               kind  == KindOf(input.literal)
           IN  /\ value.t = kind
               /\ kind = "int" => value = IntVal(Scaled(input.literal, 0))
               /\ kind = "string" => value = StrVal(input.literal)
               /\ Sprint(value) = IF input.literal = <<"N", "a", "N">> THEN <<"N", "a", "N">>
                                  ELSE TextAs(kind, input.literal)
               /\ input.literal = <<"1", "8">> => value = IntVal(18)
               /\ input.literal = <<"1", "9", ".", "9", "9">> => value.t = "float" /\ value.n = 1999 /\ value.k = 2
               /\ input.literal = <<"t", "r", "u", "e">> => value = BoolVal(TRUE)
               /\ input.literal = <<"N", "e", "w", " ", "Y", "o", "r", "k">> => value = StrVal(<<"N", "e", "w", " ", "Y", "o", "r", "k">>)

\* Age = 19.99 was parsed: the value is the float 19.99, not a string.
C12_Witness ==
    /\ input.fn = "condition"
    /\ input.text = <<"A", "g", "e", " ", "=", " ", "1", "9", ".", "9", "9">>
    /\ output.ok
    /\ output.q.where[1].Value.t = "float"
    /\ Sprint(output.q.where[1].Value) = <<"1", "9", ".", "9", "9">>

\* The text between the outermost quotes of the written value: the literal,
\* inside the inner layer of quotes when it was written in two layers.
InsideOneLayer ==
    (IF input.quote[1] = <<>> THEN <<>> ELSE Tail(input.quote[1]))
        \o input.literal
        \o (IF input.quote[2] = <<>> THEN <<>>
            ELSE SubSeq(input.quote[2], 1, Len(input.quote[2]) - 1))

\* C13: parseWhere takes one layer of quotes off the value before it coerces
\* it: a value without quotes is coerced as it stands, 'John' is John, and a
\* value in two layers, ''John'' or "'John'", is the string 'John'.
C13_OneQuoteLayer ==
    (input.fn = "condition" /\ input.operator \in SpelledOperators) =>
        /\ output.ok
        /\ Len(output.q.where) = 1
        /\ LET value == output.q.where[1].Value
               kind  == KindOf(InsideOneLayer)
           IN  /\ value.t = kind
               /\ Sprint(value) = IF InsideOneLayer = <<"N", "a", "N">> THEN <<"N", "a", "N">>
                                  ELSE TextAs(kind, InsideOneLayer)

-----------------------------------------------------------------------------
(* Claims on the SQL front end: statements it is to refuse                 *)

\* The statement has the word LIMIT or OFFSET with no decimal number after it.
NoNumberAfter(words) ==
    \E i \in 1..Len(words) :
        /\ ToUpper(words[i]) \in {kLIMIT, kOFFSET}
        /\ \/ i = Len(words)
           \/ \E j \in 1..Len(words[i + 1]) :
                  words[i + 1][j] \notin {"0", "1", "2", "3", "4", "5", "6", "7", "8", "9"}

\* C14: parseSQL refuses every SELECT statement whose LIMIT or OFFSET is not
\* followed by a decimal number, with a syntax error and without a Query,
\* also when a WHERE clause stands before the LIMIT or OFFSET.
C14_BadLimitIsRefused ==
    ( /\ output.kind = "SELECT"
      /\ input.fn = "parseSQL"
      /\ NoNumberAfter(Fields(output.sql)) )
    => /\ err = ErrInvalidSQL
       /\ query = From(<<>>)

\* The first condition of the clause that is not of the shape.
FirstUnshaped(conds) ==
    CHOOSE i \in 1..Len(conds) :
        /\ ~conds[i].shaped
        /\ \A j \in 1..(i - 1) : conds[j].shaped

\* C15: parseWhere refuses a clause that has a condition which is not, as a
\* whole, a column of one word, an operator and a value (words before the
\* column, no value, no operator), with an error that names the first such
\* condition; parseSQL then returns an error and no Query.
C15_MalformedConditionIsRefused ==
    (input.fn = "clause" /\ \E i \in 1..Len(input.conds) : ~input.conds[i].shaped) =>
        /\ ~output.where.ok
        /\ output.where.condition = input.conds[FirstUnshaped(input.conds)].text
        /\ ~output.sql.ok
        /\ output.sql.err = ErrParseWhere
        /\ output.sql.q = From(<<>>)

-----------------------------------------------------------------------------
(* Claims on statements of no operation                                    *)

\* The error each operation of SQLParser returns for a text that is no
\* statement of it.
SyntaxError(kind) ==
    CASE kind = "SELECT" -> "failed to parse SQL: invalid SQL syntax"
      [] kind = "INSERT" -> "invalid INSERT SQL syntax"
      [] kind = "UPDATE" -> "invalid UPDATE SQL syntax"
      [] kind = "DELETE" -> "invalid DELETE SQL syntax"

\* The operation of SQLParser a statement kind is passed to.
Operation(kind) ==
    CASE kind = "SELECT" -> "Query"
      [] kind = "INSERT" -> "Insert"
      [] kind = "UPDATE" -> "Update"
      [] kind = "DELETE" -> "Delete"

\* C16: Query, Insert, Update and Delete of SQLParser, called with a text
\* that is no statement of the operation, return the operation's syntax
\* error; no Query is made, no request reaches the store, nothing is left to
\* write and the destination is as it was handed in.
C16_InvalidStatementIsRefused ==
    (output \in InvalidStatements /\ input.fn = Operation(output.kind)) =>
        /\ err = SyntaxError(output.kind)
        /\ requests = <<>>
        /\ query = From(<<>>)
        /\ pc = "idle" /\ todo = <<>>
        /\ data = NoData
        /\ dest = input.dest
        /\ sheet0 = input.values0

C16_Witness ==
    /\ output.sql = <<"I", "N", "V", "A", "L", "I", "D", " ", "S", "Q", "L">>
    /\ input.fn = "Delete"
    /\ err = "invalid DELETE SQL syntax"
    /\ dest # <<>>
    /\ requests = <<>>

-----------------------------------------------------------------------------
(* Claims on the letter case of keywords                                   *)

\* The six keywords of a SELECT statement.
SelectKeywords == { <<"S", "E", "L", "E", "C", "T">>, <<"F", "R", "O", "M">>, <<"W", "H", "E", "R", "E">>, <<"A", "N", "D">>, <<"L", "I", "M", "I", "T">>, <<"O", "F", "F", "S", "E", "T">> }

\* Where the word that begins a text ends.
RECURSIVE WordEnd(_, _)
WordEnd(text, i) ==
    IF i > Len(text) \/ text[i] = " " THEN i - 1 ELSE WordEnd(text, i + 1)

\* The text with each word that is a keyword in some letter case written in
\* capitals, and every other character as it is.
RECURSIVE InCapitals(_)
InCapitals(text) ==
    IF text = <<>> THEN <<>>
    ELSE IF text[1] = " " THEN <<" ">> \o InCapitals(Tail(text))
    ELSE LET word == SubSeq(text, 1, WordEnd(text, 1))
         IN  (IF \E keyword \in SelectKeywords :
                     /\ Len(keyword) = Len(word)
                     /\ \A i \in 1..Len(word) :
                            word[i] = keyword[i] \/ Ord(word[i]) = Ord(keyword[i]) + 32
              THEN [i \in 1..Len(word) |->
                       IF Ord(word[i]) >= 97 THEN Chr(Ord(word[i]) - 32) ELSE word[i]]
              ELSE word)
             \o InCapitals(SubSeq(text, Len(word) + 1, Len(text)))

\* C17: a SELECT statement whose keywords are in small letters or in mixed
\* case parses to the Query its form with the keywords in capitals parses
\* to: as many predicates, with the same columns, operators and values, the
\* same limit and offset; the table and the columns have the letter case
\* of the text.
C17_KeywordsInAnyCase ==
    (output \in SelectStatements /\ input.fn = "parseSQL") =>
        /\ err = NoError
        /\ query = parseSQL(InCapitals(output.sql)).q
        /\ parseSQL(InCapitals(output.sql)).ok
        /\ query.sheetName = output.table
        /\ Len(query.where) = Len(output.conds)
        /\ \A i \in 1..Len(output.conds) :
              /\ query.where[i].Column = output.conds[i].args[1]
              /\ query.where[i].Operator = output.conds[i].args[2]
              /\ query.where[i].Value = output.conds[i].args[3]
        /\ query.limit = (IF output.limit < 0 THEN 0 ELSE output.limit)
        /\ query.offset = (IF output.offset < 0 THEN 0 ELSE output.offset)

C17_Witness ==
    /\ output.sql = <<"s", "e", "l", "e", "c", "t", " ", "*", " ", "f", "r", "o", "m", " ", "u", "s", "e", "r", "s", "_", "1", " ", "w", "h", "e", "r", "e", " ", "A", "g", "e", " ", ">", " ", "1", "8", " ", "l", "i", "m", "i", "t", " ", "1", "0">>
    /\ input.fn = "parseSQL"
    /\ err = NoError
    /\ query.sheetName = <<"u", "s", "e", "r", "s", "_", "1">>
    /\ Len(query.where) = 1
    /\ query.limit = 10

-----------------------------------------------------------------------------
(* Claims on the letter case of LIKE                                       *)

\* C18: a condition that spells the operator like or Like, with spaces
\* around it, is accepted and parses to the predicate the condition with
\* LIKE parses to, (column, LIKE, value); the row matches it exactly when
\* the value, letter case set aside, occurs in the cell.
C18_LikeInAnyCase ==
    (/\ input.fn = "condition"
     /\ input.operator \in {sLike, sLikeTitle}
     /\ input.text = conditionText(input.column, <<" ">>, input.operator, input.quote, input.literal)
     /\ OneLayer) =>
        /\ output.ok
        /\ output.q = parseWhere(From(sUsers),
                                 conditionText(input.column, <<" ">>, OpLike, input.quote, input.literal)).q
        /\ Len(output.q.where) = 1
        /\ output.q.where[1].Column = input.column
        /\ output.q.where[1].Operator = OpLike
        /\ output.matched = OccursIn(Folded(Sprint(output.q.where[1].Value)), Folded(input.cell))

-----------------------------------------------------------------------------
(* Claims on the operator <>                                               *)

\* C19: a condition written with <> gives one predicate on the column, with
\* the operator != and the value coerced as for any operator; a row is
\* rejected exactly when the text of its cell is the text of the value.
\* Age <> 25 gives (Age, !=, Integer 25) and rejects the cell 25 only.
C19_NotEqualIsNormalised ==
    (input.fn = "condition" /\ input.operator = <<"<", ">">>) =>
        /\ output.ok
        /\ Len(output.q.where) = 1
        /\ output.q.where[1].Column = input.column
        /\ output.q.where[1].Operator = <<"!", "=">>
        /\ output.q.where[1].Operator \notin { <<"<", ">">>, <<"<">>, <<">">> }
        /\ output.q.where[1].Value = parsedValue(input.literal)
        /\ output.matched = (input.cell # Sprint(output.q.where[1].Value))
        /\ input.text \in { <<"A", "g", "e", " ", "<", ">", " ", "2", "5">>, <<"A", "g", "e", "<", ">", "2", "5">> } =>
              /\ output.q.where[1] = WhereClause(<<"A", "g", "e">>, <<"!", "=">>, IntVal(25))
              /\ output.matched = (input.cell # <<"2", "5">>)

C19_Witness ==
    /\ input.fn = "condition"
    /\ input.text = <<"A", "g", "e", " ", "<", ">", " ", "2", "5">>
    /\ input.cell = <<"2", "5">>
    /\ output.ok
    /\ output.q.where = << WhereClause(<<"A", "g", "e">>, <<"!", "=">>, IntVal(25)) >>
    /\ ~output.matched

-----------------------------------------------------------------------------
(* Claims on binding a row to a record                                     *)

\* The column a field is bound to, and its place in the header (the last
\* column with that text; 0 when the header has none).
ColumnOf(field) == IF field.Tag # <<>> THEN field.Tag ELSE field.Name

PlaceOf(field, headers) ==
    LET places == {c \in 1..Len(headers) : headers[c] = ColumnOf(field)}
    IN  IF places = {} THEN 0 ELSE CHOOSE c \in places : \A d \in places : d <= c

\* The field can be set and its column is a cell of the row.
InRow(field, row, headers) ==
    /\ Ord(field.Name[1]) >= 65 /\ Ord(field.Name[1]) <= 90
    /\ PlaceOf(field, headers) > 0
    /\ PlaceOf(field, headers) <= Len(row)

\* A decimal number in text: a sign or none, digits with at most one point.
IsDecimalNumber(s) ==
    LET body == IF s # <<>> /\ s[1] \in {"+", "-"} THEN Tail(s) ELSE s
    IN  /\ \E i \in 1..Len(body) : body[i] # "."
        /\ \A i \in 1..Len(body) : body[i] \in {"0", "1", "2", "3", "4", "5", "6", "7", "8", "9", "."}
        /\ \A i, j \in 1..Len(body) : (body[i] = "." /\ body[j] = ".") => i = j

\* The text is one a field of the kind can hold.
Parsable(kind, text) ==
    CASE kind = "string" -> TRUE
      [] kind = "int"    -> IsInteger(text)
      [] kind = "float"  -> IsDecimalNumber(text)
      [] kind = "bool"   -> IsTruth(text)
      [] OTHER           -> FALSE

\* The field cannot be bound to its cell of the row.
Unbindable(field, row, headers) ==
    /\ InRow(field, row, headers)
    /\ \/ field.Kind \notin {"string", "int", "float", "bool"}
       \/ /\ row[PlaceOf(field, headers)].s # <<>>
          /\ ~Parsable(field.Kind, row[PlaceOf(field, headers)].s)

\* The zero value of a kind, as a type and a text.
ZeroOf(kind) ==
    CASE kind = "string" -> <<"string", <<>>>>
      [] kind = "int"    -> <<"int", <<"0">>>>
      [] kind = "float"  -> <<"float", <<"0">>>>
      [] kind = "bool"   -> <<"bool", <<"f", "a", "l", "s", "e">>>>
      [] OTHER           -> <<"nil", <<"<", "n", "i", "l", ">">>>>

\* C20: mapRowToStruct fails exactly when some field that can be set and
\* whose column (its tag, or its name when untagged) is a cell of the row
\* has a kind other than string, int, float and bool, or has a cell that is
\* not empty and not a text of its kind; the error names the first such
\* field. Otherwise every field whose column is not in the header or lies
\* beyond the row, or that cannot be set, has its zero value, an empty cell
\* gives the zero value of the kind, and any other cell the value it is the
\* text of.
C20_RowBindsByTag ==
    input.fn = "mapRowToStruct" =>
        LET failing == {i \in 1..Len(input.type) : Unbindable(input.type[i], input.row, input.headers)}
        IN  /\ output.ok = (failing = {})
            /\ ~output.ok => output.field = input.type[CHOOSE i \in failing : \A j \in failing : i <= j].Name
            /\ output.ok =>
                  /\ Len(output.elem) = Len(input.type)
                  /\ \A i \in 1..Len(input.type) :
                        LET field == input.type[i]
                            place == PlaceOf(field, input.headers)
                        IN  IF ~InRow(field, input.row, input.headers) \/ input.row[place].s = <<>>
                            THEN <<output.elem[i].t, Sprint(output.elem[i])>> = ZeroOf(field.Kind)
                            ELSE /\ output.elem[i].t = field.Kind
                                 /\ Sprint(output.elem[i]) = TextAs(field.Kind, input.row[place].s)

C20_Witness ==
    /\ input.fn = "mapRowToStruct"
    /\ input.type = << Field(sName, <<>>, "string"), Field(sYears, sAge, "int") >>
    /\ input.headers = <<sName, sAge>>
    /\ input.row = << StrVal(sAnn), StrVal(<<"x">>) >>
    /\ ~output.ok
    /\ output.field = sYears

-----------------------------------------------------------------------------
(* Claims on equality with a literal                                       *)

\* C30: a condition col = L, with L bare or in one layer of quotes, is
\* accepted, and the row whose cell under col is the text L satisfies it.
C30_EqualityMatchesTheLiteral ==
    (/\ input.fn = "condition"
     /\ input.operator = <<"=">>
     /\ OneLayer
     /\ input.cell = input.literal) =>
        /\ output.ok
        /\ output.matched

-----------------------------------------------------------------------------
(* Get on a destination that is in use: specification SpecReuse            *)
(*                                                                         *)
(* The caller hands Get a slice that an earlier call has filled.           *)

\* Data rows of a sheet read into a slice in use.
MaxReuseRows == 4

\* The slice as earlier calls left it.
ReuseDests ==
    { <<>>,
      << << StrVal(sCy), IntVal(5) >> >>,
      << << StrVal(sCy), IntVal(5) >>, << StrVal(sBob), IntVal(9) >> >> }

InitReuse ==
    /\ sheet \in {values \in PageSheets : Len(values) <= MaxReuseRows + 1}
    /\ sheet0 = Sheet0Rows
    /\ query = From(sUsers)
    /\ data = NoData
    /\ pc = "idle"
    /\ todo = <<>>
    /\ dest \in ReuseDests
    /\ err = NoError
    /\ requests = <<>>
    /\ calls = MaxCalls - 1
    /\ input = NoCall
    /\ output = <<>>

SpecReuse == InitReuse /\ [][NextPage]_vars

\* C27: a Get that returns nil leaves in the slice the records of the rows
\* to deliver and nothing else, whatever the slice held before: with limit
\* L > 0 these are the first L eligible rows, or all of them if there are
\* fewer.
C27_GetIgnoresDestination ==
    (input.fn = "Get" /\ ReadAnswered /\ err = NoError) =>
        LET rows == Delivered(query, input.values)
        IN  /\ dest = [i \in 1..Len(rows) |-> RecordOf(input.values, rows[i])]
            /\ query.limit > 0 =>
                  Len(rows) = (IF Cardinality(Eligible(query, input.values)) < query.limit
                               THEN Cardinality(Eligible(query, input.values))
                               ELSE query.limit)

-----------------------------------------------------------------------------
(* Claims on what Update and Delete write                                  *)

\* C26: every deletion of a Delete names the sheet of the Query, and the
\* sheet with id 0 is as it was when the call began.
C26_DeletesStayInNamedSheet ==
    input.fn = "Delete" =>
        /\ \A i \in 1..Len(requests) :
              requests[i].kind = "delete" => requests[i].sheetId = NamedSheetId
        /\ sheet0 = input.values0

\* The sheet rows of the write requests sent, and of the writes still to do.
SentRows == {WriteRequests[i].at : i \in 1..Len(WriteRequests)}

RowsToDo ==
    {IF pc = "updating" THEN todo[i].actualRowIndex ELSE todo[i] : i \in 1..Len(todo)}

\* C28: an Update or Delete whose read was answered, while it runs and when
\* it has returned nil, has sent or is still to send a write for every data
\* row that satisfies the clauses of the Query, and for no other row: for
\* every data row of the sheet when the Query has no clause, whatever its
\* limit and offset are.
C28_WritesIgnoreLimitAndOffset ==
    (input.fn \in {"Update", "Delete"} /\ ReadAnswered /\ err \in {Running, NoError}) =>
        /\ SentRows \cup RowsToDo = SelectedRows(query, input.values)
        /\ SentRows \cap RowsToDo = {}
        /\ query.where = <<>> => SentRows \cup RowsToDo = 2..Len(input.values)
        /\ err = NoError => RowsToDo = {}

C28_Witness ==
    /\ input.fn = "Delete"
    /\ query.where = <<>>
    /\ query.limit = 1
    /\ query.offset = 1
    /\ Len(input.values) = 4
    /\ err = NoError
    /\ SentRows = {2, 3, 4}

\* The deletions of the last call, in the order they were sent.
Deletions == SelectSeq(requests, LAMBDA r : r.kind = "delete")

\* C25: a Delete that has returned nil sent one deletion for each selected
\* row, from the highest row down, each for the rows [at - 1, at) counted
\* from 0, and the sheet is then the header and the data rows that were not
\* selected, in the order they had.
C25_DeleteLeavesTheOthers ==
    (input.fn = "Delete" /\ err = NoError) =>
        /\ {Deletions[i].at : i \in 1..Len(Deletions)} = SelectedRows(query, input.values)
        /\ \A i \in 1..(Len(Deletions) - 1) : Deletions[i].at > Deletions[i + 1].at
        /\ \A i \in 1..Len(Deletions) : Deletions[i].ok
        /\ sheet = AfterDeletes(input.values, SelectedRows(query, input.values))
        /\ sheet[1] = input.values[1]

-----------------------------------------------------------------------------
(* Insert and Update of records of several types: specification SpecWrite  *)
(*                                                                         *)
(* The sheets differ in their header: columns in either order, a column    *)
(* no field is bound to, a column twice, one column only; their data rows  *)
(* are shorter than, as wide as and wider than the header. output holds    *)
(* the sheet as the run begins and the record the caller writes.           *)

\* Data rows of a sheet that is written to.
MaxWriteRows == 2

WriteHeaders ==
    { <<sName, sAge>>, <<sAge, sName>>, <<sName, sCity, sAge>>, <<sCity>>, <<sName, sAge, sName>> }

WriteRows ==
    { <<>>, << StrVal(sAnn) >>, << StrVal(sAnn), StrVal(<<"7">>) >>,
      << StrVal(sBob), StrVal(<<"9">>), StrVal(<<"x">>), StrVal(<<"y">>) >> }

WriteSheets ==
    {<<>>} \cup { << [c \in 1..Len(headers) |-> StrVal(headers[c])] >> \o rows :
                    headers \in WriteHeaders, rows \in SeqsUpTo(WriteRows, MaxWriteRows) }

\* The records written, each with its struct type: a User, a User with its
\* zero values, a record with a field bound to no column of any header, one
\* with two fields bound to the column Name, one with a field for City only.
WriteRecord(type, value) == [type |-> type, value |-> value]

WriteRecords ==
    { WriteRecord(UserType, << StrVal(sCy), IntVal(5) >>),
      WriteRecord(UserType, << StrVal(<<>>), IntVal(0) >>),
      WriteRecord(<< Field(sName, <<>>, "string"), Field(sYears, sAge, "int"), Field(sNick, <<>>, "bool") >>,
                  << StrVal(sCy), IntVal(5), BoolVal(TRUE) >>),
      WriteRecord(<< Field(sNick, sName, "string"), Field(sName, <<>>, "string") >>,
                  << StrVal(sBob), StrVal(sCy) >>),
      WriteRecord(<< Field(sCity, <<>>, "float") >>, << FloatVal(Normalise(FALSE, 15, 1)) >>) }

WriteQueries ==
    { From(sUsers),
      Where(From(sUsers), sName, OpEq, StrVal(sAnn)),
      Offset(Limit(Where(From(sUsers), sAge, OpGe, IntVal(7)), 1), 1) }

InitWrite ==
    /\ sheet \in WriteSheets
    /\ sheet0 = Sheet0Rows
    /\ query = From(sUsers)
    /\ data = NoData
    /\ pc = "idle"
    /\ todo = <<>>
    /\ dest = <<>>
    /\ err = NoError
    /\ requests = <<>>
    /\ calls = MaxCalls - 1
    /\ input = NoCall
    /\ \E record \in WriteRecords : output = [sheet |-> sheet, record |-> record]

\* q.Insert(record).
WriteInsert == InsertAs(From(sUsers), output.record.type, output.record.value)

\* q.Update(record).
WriteUpdate == \E q \in WriteQueries : UpdateAs(q, output.record.type, output.record.value)

NextWrite == WriteInsert \/ WriteUpdate \/ UpdateWrite

SpecWrite == InitWrite /\ [][NextWrite]_vars

-----------------------------------------------------------------------------
(* Claims on the rows Insert and Update write                              *)

\* The header of the sheet as the run began, and the record written.
HeaderAtStart == [c \in 1..Len(output.sheet[1]) |-> output.sheet[1][c].s]

\* The fields of the record's type bound to column c of the header.
FieldsAt(c, headers) ==
    {i \in 1..Len(output.record.type) : PlaceOf(output.record.type[i], headers) = c}

\* What a written row holds in column c when a field is bound to it: the
\* value of that field, of the last one when there are several.
ValueAt(c, headers) ==
    output.record.value[CHOOSE i \in FieldsAt(c, headers) : \A j \in FieldsAt(c, headers) : j <= i]

\* No two fields of the record's type are bound to the same column.
DistinctColumns ==
    \A i, j \in 1..Len(output.record.type) :
        ColumnOf(output.record.type[i]) = ColumnOf(output.record.type[j]) => i = j

Appends == SelectSeq(requests, LAMBDA r : r.kind = "append")

\* C21: Insert reads the header and, when the sheet has one, sends exactly
\* one append, of a row as wide as the header: a column that fields are
\* bound to holds the field's value (each field's own value at its column's
\* index when no two fields share a column), every other column is blank,
\* and a field whose column is not in the header is in no cell. The rows the
\* sheet had, the header among them, are as they were, with the new row
\* after them when the append was carried out. Without a header row Insert
\* returns "no headers found" and sends no append.
C21_InsertFillsOneRow ==
    input.fn = "Insert" =>
        /\ requests[1].kind = "read"
        /\ ~requests[1].ok => (err = ErrReadHeaders /\ Appends = <<>> /\ sheet = output.sheet)
        /\ (requests[1].ok /\ output.sheet = <<>>) =>
              (err = ErrNoHeaders /\ Appends = <<>> /\ sheet = <<>>)
        /\ (requests[1].ok /\ output.sheet # <<>>) =>
              /\ Len(requests) = 2 /\ Len(Appends) = 1
              /\ Len(Appends[1].row) = Len(HeaderAtStart)
              /\ \A c \in 1..Len(HeaderAtStart) :
                    Appends[1].row[c] = (IF FieldsAt(c, HeaderAtStart) = {} THEN NilVal
                                         ELSE ValueAt(c, HeaderAtStart))
              /\ DistinctColumns =>
                    \A i \in 1..Len(output.record.type) :
                        PlaceOf(output.record.type[i], HeaderAtStart) > 0 =>
                            Appends[1].row[PlaceOf(output.record.type[i], HeaderAtStart)]
                                = output.record.value[i]
              /\ \A r \in 1..Len(output.sheet) : sheet[r] = output.sheet[r]
              /\ Len(sheet) = Len(output.sheet) + (IF Appends[1].ok THEN 1 ELSE 0)
              /\ err = (IF Appends[1].ok THEN NoError ELSE ErrInsertRow)

C21_Witness ==
    /\ input.fn = "Insert"
    /\ output.sheet # <<>>
    /\ HeaderAtStart = <<sName, sCity, sAge>>
    /\ output.record.type = UserType
    /\ Len(Appends) = 1
    /\ Appends[1].ok
    /\ Appends[1].row = << StrVal(sCy), NilVal, IntVal(5) >>
    /\ Len(sheet) = Len(output.sheet) + 1

\* The header the Update read, and the write requests it has sent.
HeaderRead == [c \in 1..Len(input.values[1]) |-> input.values[1][c].s]

\* C29: every write of an Update goes to a row that satisfies the clauses,
\* with a row as wide as the header: a column that fields are bound to holds
\* the field's value, the record's zero values too, and every other column
\* holds the cell that was fetched, or is blank when the fetched row ends
\* before it. The header and the rows no write was carried out for are as
\* they were read.
C29_UpdateKeepsUnboundCells ==
    (input.fn = "Update" /\ ReadAnswered /\ Len(input.values) > 0) =>
        /\ \A i \in 1..Len(WriteRequests) :
              LET at  == WriteRequests[i].at
                  row == WriteRequests[i].row
              IN  /\ WriteRequests[i].kind = "update"
                  /\ at \in SelectedRows(query, input.values)
                  /\ Len(row) = Len(HeaderRead)
                  /\ \A c \in 1..Len(HeaderRead) :
                        row[c] = (IF FieldsAt(c, HeaderRead) # {} THEN ValueAt(c, HeaderRead)
                                  ELSE IF c <= Len(input.values[at]) THEN input.values[at][c]
                                  ELSE NilVal)
        /\ Len(sheet) = Len(input.values)
        /\ sheet[1] = input.values[1]
        /\ \A r \in 1..Len(input.values) :
              (\A i \in 1..Len(WriteRequests) : WriteRequests[i].at = r => ~WriteRequests[i].ok)
                  => sheet[r] = input.values[r]

C29_Witness ==
    /\ input.fn = "Update"
    /\ Len(input.values) >= 2
    /\ HeaderRead = <<sName, sCity, sAge>>
    /\ input.values[2] = << StrVal(sAnn), StrVal(<<"7">>) >>
    /\ output.record.value = << StrVal(<<>>), IntVal(0) >>
    /\ Len(WriteRequests) >= 1
    /\ WriteRequests[1].at = 2
    /\ WriteRequests[1].ok
    /\ WriteRequests[1].row = << StrVal(<<>>), StrVal(<<"7">>), IntVal(0) >>

-----------------------------------------------------------------------------
(* Update and Delete on a sheet others write to: specification SpecShared  *)
(*                                                                         *)
(* Between the read of a running Update or Delete and each of its writes   *)
(* another writer may insert a row into the sheet or remove one. output    *)
(* holds what the other writer did.                                        *)

\* Writes of the other writer during one call.
MaxOtherWrites == 1

\* The rows the other writer inserts.
OtherRows == { << StrVal(sBob), StrVal(<<"9">>) >>, << StrVal(sAnn), StrVal(<<"7">>) >> }

\* Rows of the list with the row put in as sheet row at.
InsertedAt(rows, at, row) ==
    SubSeq(rows, 1, at - 1) \o <<row>> \o SubSeq(rows, at, Len(rows))

\* The other writer inserts a data row or removes one while a call runs.
OtherWriter ==
    /\ pc \in {"updating", "deleting"}
    /\ Len(output) < MaxOtherWrites
    /\ \/ \E at \in 2..(Len(sheet) + 1), row \in OtherRows :
             /\ sheet' = InsertedAt(sheet, at, row)
             /\ output' = Append(output, [kind |-> "insert", at |-> at, row |-> row])
       \/ \E at \in 2..Len(sheet) :
             /\ sheet' = storeDelete(sheet, at - 1, at)
             /\ output' = Append(output, [kind |-> "remove", at |-> at, row |-> sheet[at]])
    /\ UNCHANGED <<sheet0, query, data, pc, todo, dest, err, requests, calls, input>>

NextShared == Update \/ UpdateWrite \/ Delete \/ DeleteWrite \/ OtherWriter

SpecShared == Init /\ [][NextShared]_vars

\* The read requests of the last call.
Reads == SelectSeq(requests, LAMBDA r : r.kind = "read")

\* C23: an Update or Delete reads the sheet once, as its first request, and
\* every write it sends afterwards names a row that satisfied the clauses in
\* the rows that read returned, ascending for Update and descending for
\* Delete, whatever the sheet holds by then; an Update writes the record it
\* was given.
C23_WritesFollowTheRead ==
    (input.fn \in {"Update", "Delete"} /\ ReadAnswered) =>
        /\ Len(Reads) = 1 /\ requests[1].kind = "read"
        /\ \A i \in 1..Len(WriteRequests) :
              /\ WriteRequests[i].at \in SelectedRows(query, input.values)
              /\ i > 1 => IF input.fn = "Update"
                          THEN WriteRequests[i - 1].at < WriteRequests[i].at
                          ELSE WriteRequests[i - 1].at > WriteRequests[i].at
              /\ input.fn = "Update" => WriteRequests[i].row = data
        /\ SentRows \cup RowsToDo \subseteq SelectedRows(query, input.values)

\* Ann's row was read as sheet row 2 and selected; the other writer then put
\* Bob's row in as row 2; the deletion of row 2 removed Bob's row, and Ann's
\* row is still in the sheet after Delete has returned nil.
C23_Witness ==
    /\ input.fn = "Delete"
    /\ err = NoError
    /\ input.values = << UserHeader, << StrVal(sAnn), StrVal(<<"7">>) >> >>
    /\ query.where = << WhereClause(sName, OpEq, StrVal(sAnn)) >>
    /\ output = << [kind |-> "insert", at |-> 2, row |-> << StrVal(sBob), StrVal(<<"9">>) >>] >>
    /\ Len(Deletions) = 1
    /\ Deletions[1].at = 2 /\ Deletions[1].ok /\ Deletions[1].sheetId = NamedSheetId
    /\ sheet = input.values

-----------------------------------------------------------------------------
(* The builder called from several threads (sheetsql.go)                   *)

\* The calls made in one behaviour.
MaxBuildCalls == 5

\* The Query instances allocated in one behaviour.
MaxQueries == 2

\* The goroutines that hold the *Query pointers.
Threads == {"a", "b"}

\* The sheet names given to From.
BuildTables == { sUsers, sCity }

\* The arguments given to Where: a comparison, and an operator that no
\* evaluator knows.
BuildClauses == { << sAge, OpGe, IntVal(7) >>, << sName, sTilde, StrVal(sAnn) >> }

\* The arguments given to Limit and to Offset.
BuildNumbers == { 2, -1 }

\* A goroutine outside any builder call.
Resting == [pc |-> "idle", q |-> 0, where |-> <<>>, clause |-> <<>>, since |-> 0]

\* The instances allocated so far; a *Query is its number in this list.
Heap == output.heap

\* No instance yet, both goroutines outside any call, no call logged.
InitBuild ==
    /\ NoStore
    /\ input = <<>>
    /\ output = [heap |-> <<>>, th |-> [t \in Threads |-> Resting]]

\* The call as the caller saw it: the instance it was made on, its argument
\* and the pointer it returned; since is the length of the log when it began.
Called(t, fn, on, arg, ret, since) ==
    [thread |-> t, fn |-> fn, on |-> on, arg |-> arg, ret |-> ret, since |-> since]

\* Client.From: &Query{...}, a new instance with its own empty list.
BuildFrom ==
    \E t \in Threads, sheetName \in BuildTables :
        /\ calls < MaxBuildCalls
        /\ Len(Heap) < MaxQueries
        /\ output.th[t].pc = "idle"
        /\ output' = [output EXCEPT !.heap = Append(@, From(sheetName))]
        /\ input' = Append(input, Called(t, "From", 0, sheetName, Len(Heap) + 1, Len(input)))
        /\ calls' = calls + 1
        /\ UNCHANGED <<sheet, sheet0, query, data, pc, todo, dest, err, requests>>

\* Query.Where, first half: the operand q.where of append is loaded.
WhereRead ==
    \E t \in Threads, i \in 1..Len(Heap), clause \in BuildClauses :
        /\ calls < MaxBuildCalls
        /\ output.th[t].pc = "idle"
        /\ output' = [output EXCEPT !.th[t] = [pc |-> "where", q |-> i, where |-> Heap[i].where,
                                               clause |-> clause, since |-> Len(input)]]
        /\ calls' = calls + 1
        /\ UNCHANGED <<sheet, sheet0, query, data, pc, todo, dest, err, requests, input>>

\* All instances keep one list.
StoreWhere_shared(heap, i, where) ==
    [j \in DOMAIN heap |-> [heap[j] EXCEPT !.where = where]]

\* q.where = ...: the list is stored in the instance the call was made on.
StoreWhere(heap, i, where) == [heap EXCEPT ![i].where = where]

\* Query.Where, second half: the list that was loaded, with the clause
\* appended, is stored in q.where and q is returned.
WhereWrite ==
    \E t \in Threads :
        LET th == output.th[t]
            q == [Heap[th.q] EXCEPT !.where = th.where]
        IN  /\ th.pc = "where"
            /\ output' = [output EXCEPT
                              !.heap = StoreWhere(@, th.q,
                                           Where(q, th.clause[1], th.clause[2], th.clause[3]).where),
                              !.th[t] = Resting]
            /\ input' = Append(input, Called(t, "Where", th.q, th.clause, th.q, th.since))
            /\ UNCHANGED <<sheet, sheet0, query, data, pc, todo, dest, err, requests, calls>>

\* Query.Limit: q.limit = limit; return q.
BuildLimit ==
    \E t \in Threads, i \in 1..Len(Heap), limit \in BuildNumbers :
        /\ calls < MaxBuildCalls
        /\ output.th[t].pc = "idle"
        /\ output' = [output EXCEPT !.heap[i] = Limit(@, limit)]
        /\ input' = Append(input, Called(t, "Limit", i, limit, i, Len(input)))
        /\ calls' = calls + 1
        /\ UNCHANGED <<sheet, sheet0, query, data, pc, todo, dest, err, requests>>

\* Query.Offset: q.offset = offset; return q.
BuildOffset ==
    \E t \in Threads, i \in 1..Len(Heap), offset \in BuildNumbers :
        /\ calls < MaxBuildCalls
        /\ output.th[t].pc = "idle"
        /\ output' = [output EXCEPT !.heap[i] = Offset(@, offset)]
        /\ input' = Append(input, Called(t, "Offset", i, offset, i, Len(input)))
        /\ calls' = calls + 1
        /\ UNCHANGED <<sheet, sheet0, query, data, pc, todo, dest, err, requests>>

NextBuild == BuildFrom \/ WhereRead \/ WhereWrite \/ BuildLimit \/ BuildOffset

SpecBuild == InitBuild /\ [][NextBuild]_vars

-----------------------------------------------------------------------------
(* Claims on the builder                                                   *)

\* The calls of one kind made on instance i, in the order they returned.
CallsOn(i, fn) == SelectSeq(input, LAMBDA c : c.fn = fn /\ c.on = i)

\* The From call that returned instance i.
MadeBy(i) == SelectSeq(input, LAMBDA c : c.fn = "From" /\ c.ret = i)

\* No Where call on instance i returned while another Where call on it ran.
InTurn(i) ==
    \A k \in 1..Len(input) :
        (input[k].fn = "Where" /\ input[k].on = i) =>
            \A j \in (input[k].since + 1)..(k - 1) :
                ~(input[j].fn = "Where" /\ input[j].on = i)

\* The value of the last call of the list, 0 when there was none.
MostRecent(numbers) == IF numbers = <<>> THEN 0 ELSE numbers[Len(numbers)].arg

\* C22: on a Query whose Where calls ran one after the other, the clause list
\* is the Where arguments in call order, duplicates and unknown operators
\* included, limit and offset are the value of the most recent Limit and
\* Offset call and 0 when there was none, the sheet name is the one From was
\* given, and every call returned the instance it was made on.
C22_BuilderKeepsTheCalls ==
    \A i \in 1..Len(Heap) :
        InTurn(i) =>
            LET wheres == CallsOn(i, "Where")
            IN  /\ Len(MadeBy(i)) = 1
                /\ Heap[i].sheetName = MadeBy(i)[1].arg
                /\ Heap[i].where = [k \in 1..Len(wheres) |->
                                       WhereClause(wheres[k].arg[1], wheres[k].arg[2], wheres[k].arg[3])]
                /\ Heap[i].limit = MostRecent(CallsOn(i, "Limit"))
                /\ Heap[i].offset = MostRecent(CallsOn(i, "Offset"))
                /\ \A k \in 1..Len(input) : input[k].on = i => input[k].ret = i

\* From("Users"), then Where twice with the same clause of an unknown
\* operator, then Limit(2) and Limit(-1): the list holds the clause twice,
\* the limit is -1 and the offset is 0.
C22_Witness ==
    /\ Len(Heap) = 1
    /\ InTurn(1)
    /\ Len(CallsOn(1, "Where")) = 2
    /\ Len(CallsOn(1, "Limit")) = 2
    /\ Heap[1] = [sheetName |-> sUsers,
                  where |-> << WhereClause(sName, sTilde, StrVal(sAnn)),
                               WhereClause(sName, sTilde, StrVal(sAnn)) >>,
                  limit |-> -1, offset |-> 0]
    /\ input[4].arg = 2

\* The clauses of the list are arguments of Where calls on the instance.
FromItsCalls(i) ==
    /\ Len(Heap[i].where) <= Len(CallsOn(i, "Where"))
    /\ \A k \in 1..Len(Heap[i].where) :
          \E c \in 1..Len(input) :
              /\ input[c].fn = "Where" /\ input[c].on = i
              /\ Heap[i].where[k] = WhereClause(input[c].arg[1], input[c].arg[2], input[c].arg[3])

\* A step changes an instance only when it ends a call made on that instance.
OwnCallsOnly ==
    \A i \in 1..Len(Heap) :
        output'.heap[i] # Heap[i] =>
            /\ Len(input') = Len(input) + 1
            /\ input'[Len(input')].on = i

\* C24: a Query changes only by the calls made on it, whatever other
\* goroutines do to other instances, and From returns a new instance with an
\* empty list; Where calls of two goroutines on one instance leave a list of
\* clauses that were given to it, which may be shorter than the calls made.
C24_InstancesAreIndependent ==
    /\ [](\A i \in 1..Len(Heap) : FromItsCalls(i))
    /\ [][OwnCallsOnly]_vars
    /\ [][Len(output'.heap) > Len(Heap) => output'.heap[Len(output'.heap)].where = <<>>]_vars

\* Two goroutines called Where on the first instance with different clauses
\* and both calls returned it; its list holds one clause, and the second
\* instance is as From made it.
C24_Witness ==
    /\ Len(Heap) = 2
    /\ calls = 4
    /\ Len(input) = 4
    /\ input[3].fn = "Where" /\ input[4].fn = "Where"
    /\ input[3].on = 1 /\ input[4].on = 1
    /\ input[3].ret = 1 /\ input[4].ret = 1
    /\ input[3].thread # input[4].thread
    /\ input[3].arg # input[4].arg
    /\ Len(Heap[1].where) = 1
    /\ Heap[2] = From(sCity)

=============================================================================
